---- MODULE Spec2Model ----
(***************************************************************************)
(* vig: side-by-side diff viewer.  Model of the diff-view engine           *)
(* (src/app.rs), the incremental syntax highlighter (src/syntax.rs), the   *)
(* background highlight worker and the input polling thread                *)
(* (src/event.rs, src/main.rs).                                            *)
(*                                                                         *)
(* Conventions: a Rust String is a sequence of one-character strings; a    *)
(* Rust Option is a sequence of length 0 (None) or 1 (Some); every index   *)
(* held in the program state (cursor row/col, tree index, file index) is   *)
(* 0-based as in the source, and At/Get translate to 1-based sequences.    *)
(***************************************************************************)
EXTENDS Integers, Sequences, FiniteSets, TLC

VARIABLES
    app,        \* the App struct (src/app.rs:254)
    workers,    \* the highlight worker threads that have not exited
    chan,       \* the channel whose receiver the App holds: [id, queue]
    hist,       \* paths given an on-demand cache since the last diff refresh
    hl,         \* a highlight cache driven directly (src/syntax.rs)
    ev          \* the event handler and its polling thread (src/event.rs)

\* ------------------------------------------------------------------------
\* Bounds of the model
\* ------------------------------------------------------------------------
MaxCount == 3        \* largest count prefix that is typed
ViewHeight == 2      \* height of the diff pane's content area
MaxScrollX == 4      \* horizontal scroll is explored up to this offset
MaxEpoch == 2        \* diff refreshes explored (App::new is the first epoch)
MaxInput == 1        \* longest search input typed
MaxHistory == 1      \* search history entries kept
MaxLogScroll == 1    \* commit log scroll offsets explored
MaxHlRows == 3       \* rows of a file handed to the highlighter
MaxQueue == 2        \* events waiting in the event channel
MaxEsc == 6          \* consecutive Esc presses tried from one state

\* ------------------------------------------------------------------------
\* Option, integer and sequence helpers
\* ------------------------------------------------------------------------
None == <<>>
Some(x) == <<x>>
IsSome(o) == o # <<>>
IsNone(o) == o = <<>>
Unwrap(o) == o[1]
UnwrapOr(o, d) == IF o = <<>> THEN d ELSE o[1]

Min(a, b) == IF a <= b THEN a ELSE b
Max(a, b) == IF a >= b THEN a ELSE b
saturating_sub(a, b) == IF a >= b THEN a - b ELSE 0

\* seq[i] for a 0-based index i that is in bounds
At(seq, i) == seq[i + 1]
\* slice.get(i)
Get(seq, i) == IF i >= 0 /\ i < Len(seq) THEN Some(seq[i + 1]) ELSE None
\* seq[s..e] for 0-based s <= e <= len
Slice(seq, s, e) == SubSeq(seq, s + 1, e)
InBounds(seq, i) == i >= 0 /\ i < Len(seq)

is_whitespace(c) == c = " "

RECURSIVE JoinLines(_)
\* lines.join("\n")
JoinLines(ls) ==
    IF Len(ls) = 0 THEN <<>>
    ELSE IF Len(ls) = 1 THEN ls[1]
    ELSE ls[1] \o <<"\n">> \o JoinLines(Tail(ls))

\* ------------------------------------------------------------------------
\* Data model (src/git/diff.rs:43-81, src/app.rs:85-114, 228-252)
\* ------------------------------------------------------------------------
\* SideBySideRow: left/right are Option<SideLine>; only the content of a
\* SideLine is modelled (the line number is never read by the engine).
Row(l, r, t) == [left |-> l, right |-> r, line_type |-> t]
\* DiffHunk
Hunk(h, rs) == [header |-> h, rows |-> rs]
\* FileDiff: a path is its sequence of '/'-separated segments
FileDiff(p, hs, bin) == [path |-> p, hunks |-> hs, is_binary |-> bin]

\* CursorPos
CursorPos(r, c, s) == [row |-> r, col |-> c, side |-> s]

DiffSide == {"Left", "Right"}
DiffViewMode == {"Scroll", "Normal", "Visual", "VisualLine"}
FocusedPane == {"FileTree", "BranchList", "Reflog", "GitLog", "DiffView"}
CursorModes == {"Normal", "Visual", "VisualLine"}

\* TreeEntry::Dir / TreeEntry::File
DirEntry(p, d, c) == [kind |-> "Dir", path |-> p, file_idx |-> 0, depth |-> d, collapsed |-> c]
FileEntry(i, d) == [kind |-> "File", path |-> <<>>, file_idx |-> i, depth |-> d, collapsed |-> FALSE]

\* KeyEvent: the key code and whether the CONTROL modifier is held
K(c) == [code |-> c, ctrl |-> FALSE]
Ctrl(c) == [code |-> c, ctrl |-> TRUE]
SpecialCodes == {"Esc", "Enter", "Tab", "BackTab", "Backspace", "Up", "Down", "Left", "Right"}
IsChar(code) == code \notin SpecialCodes
DigitChars == {"1", "2", "3", "4", "5", "6", "7", "8", "9"}
DigitVal(c) == CASE c = "1" -> 1 [] c = "2" -> 2 [] c = "3" -> 3 [] c = "4" -> 4
                 [] c = "5" -> 5 [] c = "6" -> 6 [] c = "7" -> 7 [] c = "8" -> 8
                 [] c = "9" -> 9 [] OTHER -> 0

\* ------------------------------------------------------------------------
\* The repository states the diffing collaborator can report
\* ------------------------------------------------------------------------
HDR == <<"@">>
\* a.rs: one hunk; a changed pair and a pure addition (the left side of the
\* addition is an absent line, projected as the empty string)
FileA == FileDiff(<<"a.rs">>,
            << Hunk(HDR, << Row(Some(<<"a", " ", "b">>), Some(<<"(", "a", ")">>), "Deleted"),
                            Row(None, Some(<<"b">>), "Added") >>) >>, FALSE)
\* a.rs after most of the change was reverted in the work tree
FileA2 == FileDiff(<<"a.rs">>,
            << Hunk(HDR, << Row(Some(<<"a">>), None, "Deleted") >>) >>, FALSE)
\* two files in one directory, so that the tree shows a directory node
FileX == FileDiff(<<"d", "x.rs">>,
            << Hunk(HDR, << Row(Some(<<"a">>), Some(<<"a">>), "Context") >>) >>, FALSE)
FileY == FileDiff(<<"d", "y.rs">>,
            << Hunk(HDR, << Row(None, Some(<<"b", " ", "a">>), "Added"),
                            Row(None, Some(<<"a">>), "Added") >>) >>, FALSE)
\* a binary file has no hunks
FileBin == FileDiff(<<"img">>, <<>>, TRUE)

\* m.rs: lines of different lengths, an absent line, a blank line, leading
\* and trailing whitespace
FileM == FileDiff(<<"m.rs">>,
            << Hunk(HDR, << Row(Some(<<"a", " ", "b">>), Some(<<"a", "b">>), "Context"),
                            Row(None, Some(<<" ">>), "Added"),
                            Row(Some(<<" ", "a">>), None, "Deleted"),
                            Row(Some(<<"b", " ">>), Some(<<"a", " ", " ", "b">>), "Context") >>) >>,
            FALSE)

DiffEmpty == <<>>
DiffM == << FileM >>
DiffA == << FileA >>
DiffA2 == << FileA2 >>
DiffDir == << FileX, FileY >>
DiffBin == << FileA, FileBin >>

\* ------------------------------------------------------------------------
\* Syntax highlighter (src/syntax.rs)
\* ------------------------------------------------------------------------
\* The syntect grammar set, reduced to what the engine depends on: a grammar
\* is found by the file name's extension or by sniffing a first line, and a
\* grammar has a construct (a quoted string) that stays open across lines.
find_syntax_by_extension(path) ==
    IF Len(path) > 0 /\ path[Len(path)] \in {"a.rs", "x.rs", "y.rs", "m.rs", "h.rs"}
    THEN Some("Rust") ELSE None

find_syntax_by_first_line(line) ==
    IF Len(line) > 0 /\ line[1] = "#" THEN Some("Shell") ELSE None

\* SyntaxHighlighter::find_syntax; first_line is an Option<&str>
find_syntax(path, first_line) ==
    IF IsSome(find_syntax_by_extension(path)) THEN find_syntax_by_extension(path)
    ELSE IF IsSome(first_line) THEN find_syntax_by_first_line(Unwrap(first_line))
    ELSE None

\* ParseState::new(syntax) and HighlightState::new(&highlighter, ScopeStack::new())
ParseStateNew(syntax) == [syntax |-> syntax, ctx |-> "main"]
HighlightStateNew == "plain"

RECURSIVE highlight_chars(_, _, _, _)
\* the tokenizer run over the characters of one line from position i (1-based):
\* returns the colors and the parse / highlight state after the line
highlight_chars(line, i, ps, hs) ==
    IF i > Len(line) THEN [colors |-> <<>>, parse |-> ps, hl |-> hs]
    ELSE LET c == line[i]
             opens == ps.ctx = "main" /\ c = "'"
             closes == ps.ctx = "string" /\ c = "'"
             color == IF ps.ctx = "string" \/ opens THEN "string" ELSE "plain"
             ps2 == IF opens THEN [ps EXCEPT !.ctx = "string"]
                    ELSE IF closes THEN [ps EXCEPT !.ctx = "main"] ELSE ps
             hs2 == IF ps2.ctx = "string" THEN "string" ELSE "plain"
             rest == highlight_chars(line, i + 1, ps2, hs2)
         IN [colors |-> <<color>> \o rest.colors, parse |-> rest.parse, hl |-> rest.hl]

\* highlight_line_colors: one color per character of the line (the color of
\* the appended newline is popped again) and the states to resume from
highlight_line_colors(line, parse_state, highlight_state) ==
    highlight_chars(line, 1, parse_state, highlight_state)

\* the first line that is not a hunk header placeholder and is not empty
RECURSIVE first_content_from(_, _, _)
first_content_from(left_lines, hunk_starts, i) ==
    IF i >= Len(left_lines) THEN None
    ELSE IF i \notin hunk_starts /\ Len(At(left_lines, i)) > 0 THEN Some(At(left_lines, i))
    ELSE first_content_from(left_lines, hunk_starts, i + 1)

first_content(left_lines, hunk_starts) == first_content_from(left_lines, hunk_starts, 0)

\* IncrementalState
IncrementalState(syntax, left_lines, right_lines, hunk_starts) ==
    [left_parse_state |-> ParseStateNew(syntax), left_highlight_state |-> HighlightStateNew,
     right_parse_state |-> ParseStateNew(syntax), right_highlight_state |-> HighlightStateNew,
     left_lines |-> left_lines, right_lines |-> right_lines, hunk_starts |-> hunk_starts]

\* HighlightCache::from_precomputed
from_precomputed(file_path, left_colors, right_colors) ==
    [file_path |-> file_path, left_colors |-> left_colors, right_colors |-> right_colors,
     processed_up_to |-> Len(left_colors), incremental |-> None]

\* SyntaxHighlighter::create_cache: Option<HighlightCache>
create_cache(file_path, left_lines, right_lines, hunk_starts) ==
    LET syntax == find_syntax(file_path, first_content(left_lines, hunk_starts))
    IN IF IsNone(syntax) THEN None
       ELSE Some([file_path |-> file_path, left_colors |-> <<>>, right_colors |-> <<>>,
                  processed_up_to |-> 0,
                  incremental |-> Some(IncrementalState(Unwrap(syntax), left_lines,
                                                        right_lines, hunk_starts))])

\* the syntax the parser states are reset to at a hunk boundary inside
\* extend_cache (src/syntax.rs:205): looked up again, by extension only
reset_syntax(cache) == find_syntax(cache.file_path, None)

\* one iteration of the loop of extend_cache, for row i
extend_row(cache, i) ==
    LET inc == Unwrap(cache.incremental)
    IN IF i \in inc.hunk_starts
       THEN LET syn == reset_syntax(cache)
                inc2 == IF IsSome(syn)
                        THEN [inc EXCEPT !.left_parse_state = ParseStateNew(Unwrap(syn)),
                                         !.left_highlight_state = HighlightStateNew,
                                         !.right_parse_state = ParseStateNew(Unwrap(syn)),
                                         !.right_highlight_state = HighlightStateNew]
                        ELSE inc
            IN [cache EXCEPT !.incremental = Some(inc2),
                             !.left_colors = Append(@, <<>>),
                             !.right_colors = Append(@, <<>>)]
       ELSE LET l == highlight_line_colors(At(inc.left_lines, i), inc.left_parse_state,
                                           inc.left_highlight_state)
                r == highlight_line_colors(At(inc.right_lines, i), inc.right_parse_state,
                                           inc.right_highlight_state)
                inc2 == [inc EXCEPT !.left_parse_state = l.parse,
                                    !.left_highlight_state = l.hl,
                                    !.right_parse_state = r.parse,
                                    !.right_highlight_state = r.hl]
            IN [cache EXCEPT !.incremental = Some(inc2),
                             !.left_colors = Append(@, l.colors),
                             !.right_colors = Append(@, r.colors)]

RECURSIVE extend_rows(_, _, _)
extend_rows(cache, i, target) ==
    IF i >= target THEN cache ELSE extend_rows(extend_row(cache, i), i + 1, target)

\* an extend_cache that has no early return and starts over from the first row
extend_cache_from_start(cache, up_to) ==
    IF IsNone(cache.incremental) THEN cache
    ELSE LET target == Min(up_to, Len(Unwrap(cache.incremental).left_lines))
         IN [extend_rows(cache, 0, target) EXCEPT !.processed_up_to = target]

\* SyntaxHighlighter::extend_cache
extend_cache(cache, up_to) ==
    IF IsNone(cache.incremental) THEN cache
    ELSE LET target == Min(up_to, Len(Unwrap(cache.incremental).left_lines))
         IN IF cache.processed_up_to >= target THEN cache
            ELSE [extend_rows(cache, cache.processed_up_to, target)
                      EXCEPT !.processed_up_to = target]

RECURSIVE highlight_all_rows(_, _, _, _, _, _)
\* the loop of highlight_all_lines over zip(left_lines, right_lines) from row i;
\* st holds the four parser / highlight states
highlight_all_rows(syntax, left_lines, right_lines, hunk_starts, i, st) ==
    IF i >= Min(Len(left_lines), Len(right_lines)) THEN [left |-> <<>>, right |-> <<>>]
    ELSE IF i \in hunk_starts
    THEN LET rest == highlight_all_rows(syntax, left_lines, right_lines, hunk_starts, i + 1,
                        [lp |-> ParseStateNew(syntax), lh |-> HighlightStateNew,
                         rp |-> ParseStateNew(syntax), rh |-> HighlightStateNew])
         IN [left |-> << <<>> >> \o rest.left, right |-> << <<>> >> \o rest.right]
    ELSE LET l == highlight_line_colors(At(left_lines, i), st.lp, st.lh)
             r == highlight_line_colors(At(right_lines, i), st.rp, st.rh)
             rest == highlight_all_rows(syntax, left_lines, right_lines, hunk_starts, i + 1,
                        [lp |-> l.parse, lh |-> l.hl, rp |-> r.parse, rh |-> r.hl])
         IN [left |-> <<l.colors>> \o rest.left, right |-> <<r.colors>> \o rest.right]

\* SyntaxHighlighter::highlight_all_lines: Option<(left_colors, right_colors)>
highlight_all_lines(file_path, left_lines, right_lines, hunk_starts) ==
    LET syntax == find_syntax(file_path, first_content(left_lines, hunk_starts))
    IN IF IsNone(syntax) THEN None
       ELSE Some(highlight_all_rows(Unwrap(syntax), left_lines, right_lines, hunk_starts, 0,
                    [lp |-> ParseStateNew(Unwrap(syntax)), lh |-> HighlightStateNew,
                     rp |-> ParseStateNew(Unwrap(syntax)), rh |-> HighlightStateNew]))

\* ------------------------------------------------------------------------
\* App (src/app.rs): construction, file tree, projections
\* ------------------------------------------------------------------------
\* SearchState::new
SearchStateNew ==
    [active |-> FALSE, input |-> <<>>, query |-> None, origin |-> "DiffView",
     matches |-> <<>>, current_match_idx |-> None, last_query |-> None,
     history |-> <<>>, history_idx |-> None, saved_input |-> <<>>]

\* the directory part of a path (everything before the last '/')
DirOf(path) == SubSeq(path, 1, Len(path) - 1)
IsPrefix(p, d) == Len(p) <= Len(d) /\ SubSeq(d, 1, Len(p)) = p

\* dir_file_count of build_tree_entries: files below directory d
dir_file_count(files, d) ==
    Cardinality({i \in 1..Len(files) :
                    Len(files[i].path) >= 2 /\ IsPrefix(d, DirOf(files[i].path))})

RECURSIVE common_prefix_len(_, _)
common_prefix_len(p, q) ==
    IF Len(p) > 0 /\ Len(q) > 0 /\ p[1] = q[1]
    THEN 1 + common_prefix_len(Tail(p), Tail(q)) ELSE 0

RECURSIVE dir_entries(_, _, _, _)
\* the directory nodes emitted for dir_parts[i..], i 0-based
dir_entries(dir_parts, collapsed_dirs, i, collapsed_ancestor) ==
    IF i >= Len(dir_parts) THEN <<>>
    ELSE LET dir_path == SubSeq(dir_parts, 1, i + 1)
             is_collapsed == dir_path \in collapsed_dirs
         IN (IF collapsed_ancestor THEN <<>> ELSE <<DirEntry(dir_path, i, is_collapsed)>>)
            \o dir_entries(dir_parts, collapsed_dirs, i + 1, collapsed_ancestor \/ is_collapsed)

RECURSIVE tree_entries_from(_, _, _, _)
\* the loop of build_tree_entries from file index file_idx (0-based)
tree_entries_from(files, collapsed_dirs, file_idx, prev_dir_parts) ==
    IF file_idx >= Len(files) THEN <<>>
    ELSE LET path == At(files, file_idx).path
             dir_parts == DirOf(path)
         IN IF Len(path) >= 2
            THEN IF dir_file_count(files, dir_parts) = 1
                 THEN <<FileEntry(file_idx, 0)>>
                      \o tree_entries_from(files, collapsed_dirs, file_idx + 1, <<>>)
                 ELSE LET common_len == common_prefix_len(prev_dir_parts, dir_parts)
                          skip_file == \E n \in 1..Len(dir_parts) :
                                          SubSeq(dir_parts, 1, n) \in collapsed_dirs
                      IN dir_entries(dir_parts, collapsed_dirs, common_len, FALSE)
                         \o (IF skip_file THEN <<>> ELSE <<FileEntry(file_idx, Len(dir_parts))>>)
                         \o tree_entries_from(files, collapsed_dirs, file_idx + 1, dir_parts)
            ELSE <<FileEntry(file_idx, 0)>>
                 \o tree_entries_from(files, collapsed_dirs, file_idx + 1, <<>>)

\* App::build_tree_entries
build_tree_entries(a) == tree_entries_from(a.diff_state, a.collapsed_dirs, 0, <<>>)

\* App::selected_file: Option<FileDiff>
selected_file(a) ==
    LET file_of(e) == IF IsSome(e) /\ Unwrap(e).kind = "File"
                      THEN Get(a.diff_state, Unwrap(e).file_idx) ELSE None
    IN file_of(Get(build_tree_entries(a), a.selected_tree_idx))

\* one side of a row, the empty string where the side is absent
side_content(row, side) ==
    UnwrapOr(IF side = "Left" THEN row.left ELSE row.right, <<>>)

RECURSIVE rows_content(_, _)
rows_content(rows, side) ==
    IF Len(rows) = 0 THEN <<>>
    ELSE <<side_content(rows[1], side)>> \o rows_content(Tail(rows), side)

RECURSIVE project(_, _)
\* the projection loop of content_lines (src/app.rs:1859-1872): per hunk the
\* header text, then one line per row
project(hunks, side) ==
    IF Len(hunks) = 0 THEN <<>>
    ELSE <<hunks[1].header>> \o rows_content(hunks[1].rows, side) \o project(Tail(hunks), side)

RECURSIVE highlight_lines(_, _)
\* the lines handed to the highlighter (src/app.rs:373-388, 440-455): per
\* hunk an empty placeholder for the header, then one line per row
highlight_lines(hunks, side) ==
    IF Len(hunks) = 0 THEN <<>>
    ELSE << <<>> >> \o rows_content(hunks[1].rows, side) \o highlight_lines(Tail(hunks), side)

RECURSIVE hunk_starts_rows_only(_, _)
\* hunk starts counted over the rows alone, the header lines left out
hunk_starts_rows_only(hunks, n) ==
    IF Len(hunks) = 0 THEN {}
    ELSE {n} \cup hunk_starts_rows_only(Tail(hunks), n + Len(hunks[1].rows))

RECURSIVE hunk_starts_from(_, _)
\* the row index of each hunk's header
hunk_starts_from(hunks, n) ==
    IF Len(hunks) = 0 THEN {}
    ELSE {n} \cup hunk_starts_from(Tail(hunks), n + 1 + Len(hunks[1].rows))

hunk_starts(file) == hunk_starts_from(file.hunks, 0)

\* content_lines with the memo keyed by the file path alone
content_lines_by_path(a) ==
    LET lines_of(f, c) ==
            IF IsNone(f) THEN <<>>
            ELSE IF IsSome(c) /\ Unwrap(c).path = Unwrap(f).path
                 THEN Unwrap(c).lines
                 ELSE project(Unwrap(f).hunks, a.cursor_pos.side)
    IN lines_of(selected_file(a), a.content_lines_cache)

\* App::content_lines, the value returned
content_lines(a) ==
    LET lines_of(f, c) ==
            IF IsNone(f) THEN <<>>
            ELSE IF IsSome(c) /\ Unwrap(c).path = Unwrap(f).path
                              /\ Unwrap(c).side = a.cursor_pos.side
                 THEN Unwrap(c).lines
                 ELSE project(Unwrap(f).hunks, a.cursor_pos.side)
    IN lines_of(selected_file(a), a.content_lines_cache)

\* App::content_lines, the App after the call (the memo is written on a miss)
content_lines_cached(a) ==
    LET memo(f, lines) ==
            IF IsNone(f) THEN a
            ELSE [a EXCEPT !.content_lines_cache =
                     Some([path |-> Unwrap(f).path, side |-> a.cursor_pos.side,
                           lines |-> lines])]
    IN memo(selected_file(a), content_lines(a))

\* ------------------------------------------------------------------------
\* Cursor motions (src/app.rs:1877-1997)
\* ------------------------------------------------------------------------
\* an out-of-bounds index or an invalid slice range aborts the process
Panic(a) == [a EXCEPT !.panicked = TRUE]

SetRow(a, r) == [a EXCEPT !.cursor_pos.row = r]
SetCol(a, c) == [a EXCEPT !.cursor_pos.col = c]

\* App::line_len_at
line_len_at(lines, row) ==
    IF InBounds(lines, row) THEN Max(Len(At(lines, row)), 1) ELSE 1

\* App::current_line_len
current_line_len(a, lines) == line_len_at(lines, a.cursor_pos.row)

\* a clamp_col that leaves the column where it is
clamp_col_skipped(a, lines) == a

\* App::clamp_col
clamp_col(a, lines) ==
    LET len == current_line_len(a, lines)
    IN IF a.cursor_pos.col >= len THEN SetCol(a, saturating_sub(len, 1)) ELSE a

\* App::scroll_to_cursor
scroll_to_cursor(a) ==
    LET row == a.cursor_pos.row
        height == a.diff_view_height
    IN IF height = 0 THEN a
       ELSE IF row < a.diff_scroll_y THEN [a EXCEPT !.diff_scroll_y = row]
       ELSE IF row >= a.diff_scroll_y + height
            THEN [a EXCEPT !.diff_scroll_y = row - height + 1]
       ELSE a

RECURSIVE skip_word(_, _)
\* while col < line.len() && !line[col].is_whitespace() { col += 1 }
skip_word(line, col) ==
    IF col < Len(line) /\ ~is_whitespace(At(line, col)) THEN skip_word(line, col + 1) ELSE col

RECURSIVE skip_space(_, _)
\* while col < line.len() && line[col].is_whitespace() { col += 1 }
skip_space(line, col) ==
    IF col < Len(line) /\ is_whitespace(At(line, col)) THEN skip_space(line, col + 1) ELSE col

\* App::move_word_forward
move_word_forward(a, lines) ==
    LET total == Len(lines)
        row0 == a.cursor_pos.row
    IN IF total = 0 THEN a
       ELSE IF ~InBounds(lines, row0) THEN Panic(a)
       ELSE LET line == At(lines, row0)
                col1 == skip_space(line, skip_word(line, a.cursor_pos.col))
                wraps == col1 >= Len(line) /\ row0 + 1 < total
                row == IF wraps THEN row0 + 1 ELSE row0
                col == IF wraps THEN skip_space(At(lines, row0 + 1), 0) ELSE col1
            IN [a EXCEPT !.cursor_pos.row = row,
                         !.cursor_pos.col = Min(col, saturating_sub(line_len_at(lines, row), 1))]

RECURSIVE back_over_space(_, _)
\* while col > 0 && line.get(col).map_or(false, |c| c.is_whitespace()) { col -= 1 }
back_over_space(line, col) ==
    IF col > 0 /\ IsSome(Get(line, col)) /\ is_whitespace(At(line, col))
    THEN back_over_space(line, col - 1) ELSE col

RECURSIVE back_over_word(_, _)
\* while col > 0 && line.get(col - 1).map_or(false, |c| !c.is_whitespace()) { col -= 1 }
back_over_word(line, col) ==
    IF col > 0 /\ IsSome(Get(line, col - 1)) /\ ~is_whitespace(At(line, col - 1))
    THEN back_over_word(line, col - 1) ELSE col

\* App::move_word_backward
move_word_backward(a, lines) ==
    LET row == a.cursor_pos.row
        col == a.cursor_pos.col
    IN IF Len(lines) = 0 THEN a
       ELSE IF ~InBounds(lines, row) THEN Panic(a)
       ELSE IF col = 0
            THEN IF row > 0
                 THEN [a EXCEPT !.cursor_pos.row = row - 1,
                                !.cursor_pos.col = saturating_sub(line_len_at(lines, row - 1), 1)]
                 ELSE a
            ELSE LET line == At(lines, row)
                 IN SetCol(a, back_over_word(line, back_over_space(line, saturating_sub(col, 1))))

RECURSIVE to_word_end(_, _)
\* while col + 1 < cur_line.len() && !cur_line[col + 1].is_whitespace() { col += 1 }
to_word_end(line, col) ==
    IF col + 1 < Len(line) /\ ~is_whitespace(At(line, col + 1))
    THEN to_word_end(line, col + 1) ELSE col

\* App::move_word_end
move_word_end(a, lines) ==
    LET total == Len(lines)
        row0 == a.cursor_pos.row
    IN IF total = 0 THEN a
       ELSE IF ~InBounds(lines, row0) THEN Panic(a)
       ELSE LET line == At(lines, row0)
                col0 == a.cursor_pos.col + 1
                wraps == col0 >= Len(line) /\ row0 + 1 < total
                row == IF wraps THEN row0 + 1 ELSE row0
                cur_line == At(lines, row)
                col == to_word_end(cur_line, skip_space(cur_line, IF wraps THEN 0 ELSE col0))
            IN [a EXCEPT !.cursor_pos.row = row,
                         !.cursor_pos.col = Min(col, saturating_sub(line_len_at(lines, row), 1))]

RECURSIVE repeat_word_forward(_, _, _)
\* for _ in 0..n { self.move_word_forward(&lines) }
repeat_word_forward(a, lines, n) ==
    IF n = 0 \/ a.panicked THEN a
    ELSE repeat_word_forward(move_word_forward(a, lines), lines, n - 1)

RECURSIVE repeat_word_backward(_, _, _)
repeat_word_backward(a, lines, n) ==
    IF n = 0 \/ a.panicked THEN a
    ELSE repeat_word_backward(move_word_backward(a, lines), lines, n - 1)

RECURSIVE repeat_word_end(_, _, _)
repeat_word_end(a, lines, n) ==
    IF n = 0 \/ a.panicked THEN a
    ELSE repeat_word_end(move_word_end(a, lines), lines, n - 1)

\* ------------------------------------------------------------------------
\* Yank, selection and text objects (src/app.rs:1545-1670, 1821-1841, 1999-2133)
\* ------------------------------------------------------------------------
\* status_message values
Status(m, n, k) == Some([msg |-> m, n |-> n, k |-> k])

\* text.lines().count()
lines_count(text) ==
    Cardinality({i \in 1..Len(text) : text[i] = "\n"})
        + (IF Len(text) > 0 /\ text[Len(text)] # "\n" THEN 1 ELSE 0)

\* copy_to_clipboard that reports nothing when the clipboard fails
copy_to_clipboard_silent(a, text, env) ==
    IF Len(text) = 0 \/ env.clip # "ok" THEN a
    ELSE [a EXCEPT !.clipboard = Some(text),
                   !.status_message = Status("Yanked", Max(lines_count(text), 1), 0)]

\* App::copy_to_clipboard; env.clip is what the system clipboard does
copy_to_clipboard(a, text, env) ==
    IF Len(text) = 0 THEN a
    ELSE LET line_count == Max(lines_count(text), 1)
         IN IF env.clip = "ok"
            THEN [a EXCEPT !.clipboard = Some(text),
                           !.status_message = Status("Yanked", line_count, 0)]
            ELSE IF env.clip = "set_text_fails"
            THEN [a EXCEPT !.status_message = Status("Clipboard error", 0, 0)]
            ELSE [a EXCEPT !.status_message = Status("Clipboard unavailable", 0, 0)]

\* a text computed by slicing: the slice may be invalid
Text(t) == [panic |-> FALSE, text |-> t]
BadSlice == [panic |-> TRUE, text |-> <<>>]

RECURSIVE range_rows(_, _, _, _)
\* the per-row loop over start.row..=end.row of extract_range / yank_selection
range_rows(lines, start, end, r) ==
    IF r > end.row THEN <<>>
    ELSE LET rest == range_rows(lines, start, end, r + 1)
         IN IF ~InBounds(lines, r) THEN rest
            ELSE LET chars == At(lines, r)
                 IN IF r = start.row
                    THEN Slice(chars, Min(start.col, Len(chars)), Len(chars)) \o rest
                    ELSE IF r = end.row
                    THEN <<"\n">> \o Slice(chars, 0, Min(end.col + 1, Len(chars))) \o rest
                    ELSE <<"\n">> \o chars \o rest

\* App::extract_range: text between two positions (inclusive)
extract_range(lines, start, end) ==
    IF start.row = end.row
    THEN IF InBounds(lines, start.row)
         THEN LET chars == At(lines, start.row)
                  s == Min(start.col, Len(chars))
                  e == Min(end.col + 1, Len(chars))
              IN IF s > e THEN BadSlice ELSE Text(Slice(chars, s, e))
         ELSE Text(<<>>)
    ELSE Text(range_rows(lines, start, end, start.row))

\* the selection endpoints in the order anchor, cursor
ordered_selection_as_set(a, anchor) == [start |-> anchor, end |-> a.cursor_pos]

\* App::ordered_selection
ordered_selection(a, anchor) ==
    IF anchor.row < a.cursor_pos.row
       \/ (anchor.row = a.cursor_pos.row /\ anchor.col <= a.cursor_pos.col)
    THEN [start |-> anchor, end |-> a.cursor_pos]
    ELSE [start |-> a.cursor_pos, end |-> anchor]

RECURSIVE whole_rows(_, _, _)
\* the lines of rows r..=end_row that exist
whole_rows(lines, r, end_row) ==
    IF r > end_row THEN <<>>
    ELSE (IF InBounds(lines, r) THEN <<At(lines, r)>> ELSE <<>>)
         \o whole_rows(lines, r + 1, end_row)

\* App::yank_selection
yank_selection(a, lines) ==
    IF IsNone(a.visual_anchor) THEN Text(<<>>)
    ELSE LET anchor == Unwrap(a.visual_anchor)
         IN IF a.diff_view_mode = "VisualLine"
            THEN Text(JoinLines(whole_rows(lines, Min(anchor.row, a.cursor_pos.row),
                                           Max(anchor.row, a.cursor_pos.row))))
            ELSE IF a.diff_view_mode = "Visual"
            THEN LET sel == ordered_selection(a, anchor)
                     start == sel.start
                     end == sel.end
                 IN IF start.row = end.row
                    THEN IF InBounds(lines, start.row)
                         THEN LET chars == At(lines, start.row)
                                  s == Min(start.col, Len(chars))
                                  e == Min(end.col + 1, Len(chars))
                              IN IF s > e THEN BadSlice ELSE Text(Slice(chars, s, e))
                         ELSE Text(<<>>)
                    ELSE Text(range_rows(lines, start, end, start.row))
            ELSE Text(<<>>)

\* copy a sliced text, or abort when the slice was invalid
copy_text(a, t, env) == IF t.panic THEN Panic(a) ELSE copy_to_clipboard(a, t.text, env)

\* the rest of the cursor line from the cursor column: chars[col..]
line_tail(a, lines) ==
    IF InBounds(lines, a.cursor_pos.row)
    THEN LET chars == At(lines, a.cursor_pos.row)
         IN Slice(chars, Min(a.cursor_pos.col, Len(chars)), Len(chars))
    ELSE <<>>

\* the cursor line up to the cursor column: chars[..col]
line_head(a, lines) ==
    IF InBounds(lines, a.cursor_pos.row)
    THEN LET chars == At(lines, a.cursor_pos.row)
         IN Slice(chars, 0, Min(a.cursor_pos.col, Len(chars)))
    ELSE <<>>

\* a yank that leaves the cursor where the word motion took it
execute_yank_motion_unrestored(a, motion, lines, count, env) ==
    IF motion = "w" THEN repeat_word_forward(a, lines, count) ELSE a

\* App::execute_yank_motion (y + motion, with count)
execute_yank_motion(a, motion, lines, count, env) ==
    LET saved == a.cursor_pos
    IN CASE motion = "y" ->
              LET start == a.cursor_pos.row
                  end == Min(start + count, Len(lines))
              IN IF start > end THEN Panic(a)
                 ELSE copy_to_clipboard(a, JoinLines(Slice(lines, start, end)), env)
         [] motion = "w" ->
              LET moved == repeat_word_forward(a, lines, count)
                  end == moved.cursor_pos
                  back == [moved EXCEPT !.cursor_pos = saved]
              IN IF moved.panicked THEN moved
                 ELSE IF end = saved THEN copy_to_clipboard(back, line_tail(back, lines), env)
                 ELSE LET adjusted_end ==
                              IF end.row > saved.row
                              THEN CursorPos(end.row - 1,
                                       saturating_sub(line_len_at(lines, saturating_sub(end.row, 1)), 1),
                                       saved.side)
                              ELSE CursorPos(end.row, saturating_sub(end.col, 1), saved.side)
                      IN copy_text(back, extract_range(lines, saved, adjusted_end), env)
         [] motion = "e" ->
              LET moved == repeat_word_end(a, lines, count)
                  back == [moved EXCEPT !.cursor_pos = saved]
              IN IF moved.panicked THEN moved
                 ELSE copy_text(back, extract_range(lines, saved, moved.cursor_pos), env)
         [] motion = "b" ->
              LET moved == repeat_word_backward(a, lines, count)
                  back == [moved EXCEPT !.cursor_pos = saved]
              IN IF moved.panicked THEN moved
                 ELSE copy_text(back, extract_range(lines, moved.cursor_pos, saved), env)
         [] motion = "$" -> copy_to_clipboard(a, line_tail(a, lines), env)
         [] motion = "0" -> copy_to_clipboard(a, line_head(a, lines), env)
         [] OTHER -> a

RECURSIVE word_start(_, _)
\* while start > 0 && !chars[start - 1].is_whitespace() { start -= 1 }
word_start(chars, start) ==
    IF start > 0 /\ ~is_whitespace(At(chars, start - 1)) THEN word_start(chars, start - 1)
    ELSE start

RECURSIVE trailing_space_end(_, _)
\* while end + 1 < chars.len() && chars[end + 1].is_whitespace() { end += 1 }
trailing_space_end(chars, end) ==
    IF end + 1 < Len(chars) /\ is_whitespace(At(chars, end + 1))
    THEN trailing_space_end(chars, end + 1) ELSE end

\* App::select_text_object_word
select_text_object_word(a, inner, lines) ==
    IF ~InBounds(lines, a.cursor_pos.row) THEN a
    ELSE LET chars == At(lines, a.cursor_pos.row)
             col == Min(a.cursor_pos.col, saturating_sub(Len(chars), 1))
         IN IF Len(chars) = 0 THEN a
            ELSE LET start == word_start(chars, col)
                     wend == to_word_end(chars, col)
                     end == IF inner THEN wend ELSE trailing_space_end(chars, wend)
                 IN [a EXCEPT !.visual_anchor =
                                  Some(CursorPos(a.cursor_pos.row, start, a.cursor_pos.side)),
                              !.cursor_pos.col = end]

\* positions 0..=col holding the opening delimiter, col+1.. holding the closing one
open_positions(chars, col, open) == {i \in 0..col : At(chars, i) = open}
close_positions(chars, col, close) == {i \in (col + 1)..(Len(chars) - 1) : At(chars, i) = close}
SetMax(S) == CHOOSE x \in S : \A y \in S : y <= x
SetMin(S) == CHOOSE x \in S : \A y \in S : x <= y

\* App::select_text_object_delim
select_text_object_delim(a, inner, open, close, lines) ==
    IF ~InBounds(lines, a.cursor_pos.row) THEN a
    ELSE LET chars == At(lines, a.cursor_pos.row)
             col == Min(a.cursor_pos.col, saturating_sub(Len(chars), 1))
         IN \* the backward search reads chars[col] first
            IF ~InBounds(chars, col) THEN Panic(a)
            ELSE LET ops == open_positions(chars, col, open)
                     cps == close_positions(chars, col, close)
                 IN IF ops = {} \/ cps = {} THEN a
                    ELSE LET op == SetMax(ops)
                             cp == SetMin(cps)
                         IN IF inner
                            THEN [a EXCEPT !.visual_anchor =
                                      Some(CursorPos(a.cursor_pos.row, op + 1, a.cursor_pos.side)),
                                           !.cursor_pos.col = saturating_sub(cp, 1)]
                            ELSE [a EXCEPT !.visual_anchor =
                                      Some(CursorPos(a.cursor_pos.row, op, a.cursor_pos.side)),
                                           !.cursor_pos.col = cp]

\* App::apply_text_object
apply_text_object(a, prefix, key, lines) ==
    LET inner == prefix = "i"
    IN CASE key = "w" -> select_text_object_word(a, inner, lines)
         [] key = "\"" -> select_text_object_delim(a, inner, "\"", "\"", lines)
         [] key = "'" -> select_text_object_delim(a, inner, "'", "'", lines)
         [] key \in {"(", ")"} -> select_text_object_delim(a, inner, "(", ")", lines)
         [] key \in {"{", "}"} -> select_text_object_delim(a, inner, "{", "}", lines)
         [] OTHER -> a

\* ------------------------------------------------------------------------
\* Search (src/app.rs:134-226, 2135-2376)
\* ------------------------------------------------------------------------
\* char::to_lowercase over the alphabet of the model
lower_char(c) == CASE c = "A" -> "a" [] c = "B" -> "b" [] OTHER -> c

RECURSIVE to_lowercase(_)
to_lowercase(t) == IF Len(t) = 0 THEN <<>> ELSE <<lower_char(t[1])>> \o to_lowercase(Tail(t))

RECURSIVE match_indices(_, _, _)
\* str::match_indices: start offsets of the non-overlapping occurrences of
\* needle in hay, scanning from offset i
match_indices(hay, needle, i) ==
    IF Len(needle) = 0 \/ i + Len(needle) > Len(hay) THEN <<>>
    ELSE IF Slice(hay, i, i + Len(needle)) = needle
         THEN <<i>> \o match_indices(hay, needle, i + Len(needle))
         ELSE match_indices(hay, needle, i + 1)

\* str::contains
contains(hay, needle) == Len(needle) = 0 \/ match_indices(hay, needle, 0) # <<>>

\* SearchMatch
DiffLine(row, col_start, col_end, side) ==
    [kind |-> "DiffLine", row |-> row, col_start |-> col_start, col_end |-> col_end,
     side |-> side, idx |-> 0]
ListMatch(kind, idx) ==
    [kind |-> kind, row |-> 0, col_start |-> 0, col_end |-> 0, side |-> "Left", idx |-> idx]

RECURSIVE line_matches(_, _, _, _)
\* one DiffLine match per occurrence offset
line_matches(offsets, row_idx, qlen, side) ==
    IF Len(offsets) = 0 THEN <<>>
    ELSE <<DiffLine(row_idx, offsets[1], offsets[1] + qlen, side)>>
         \o line_matches(Tail(offsets), row_idx, qlen, side)

\* the matches of one optional side line
side_matches(side_line, query, row_idx, side) ==
    IF IsNone(side_line) THEN <<>>
    ELSE line_matches(match_indices(to_lowercase(Unwrap(side_line)), to_lowercase(query), 0),
                      row_idx, Len(query), side)

RECURSIVE rows_matches(_, _, _)
rows_matches(rows, query, row_idx) ==
    IF Len(rows) = 0 THEN <<>>
    ELSE side_matches(rows[1].left, query, row_idx, "Left")
         \o side_matches(rows[1].right, query, row_idx, "Right")
         \o rows_matches(Tail(rows), query, row_idx + 1)

RECURSIVE hunks_matches(_, _, _)
hunks_matches(hunks, query, row_idx) ==
    IF Len(hunks) = 0 THEN <<>>
    ELSE side_matches(Some(hunks[1].header), query, row_idx, "Left")
         \o rows_matches(hunks[1].rows, query, row_idx + 1)
         \o hunks_matches(Tail(hunks), query, row_idx + 1 + Len(hunks[1].rows))

\* App::search_diff_view: appends to search.matches
search_diff_view(a, query) ==
    LET f == selected_file(a)
    IN IF IsNone(f) THEN a
       ELSE [a EXCEPT !.search.matches = @ \o hunks_matches(Unwrap(f).hunks, query, 0)]

\* the characters of a path segment
seg_chars(seg) ==
    CASE seg = "a.rs" -> <<"a", ".", "r", "s">>
      [] seg = "x.rs" -> <<"x", ".", "r", "s">>
      [] seg = "y.rs" -> <<"y", ".", "r", "s">>
      [] seg = "m.rs" -> <<"m", ".", "r", "s">>
      [] seg = "img" -> <<"i", "m", "g">>
      [] seg = "run" -> <<"r", "u", "n">>
      [] seg = "d" -> <<"d">>
      [] OTHER -> <<>>

RECURSIVE path_chars(_)
\* the path as text, segments joined by '/'
path_chars(path) ==
    IF Len(path) = 0 THEN <<>>
    ELSE IF Len(path) = 1 THEN seg_chars(path[1])
    ELSE seg_chars(path[1]) \o <<"/">> \o path_chars(Tail(path))

RECURSIVE tree_matches(_, _, _, _)
tree_matches(a, entries, query, idx) ==
    IF idx >= Len(entries) THEN <<>>
    ELSE LET e == At(entries, idx)
             f == Get(a.diff_state, e.file_idx)
             named == e.kind = "Dir" \/ IsSome(f)
             name == IF e.kind = "Dir" THEN path_chars(e.path)
                     ELSE IF IsSome(f) THEN path_chars(Unwrap(f).path) ELSE <<>>
         IN (IF named /\ contains(to_lowercase(name), to_lowercase(query))
             THEN <<ListMatch("TreeEntry", idx)>> ELSE <<>>)
            \o tree_matches(a, entries, query, idx + 1)

\* App::search_file_tree
search_file_tree(a, query) ==
    [a EXCEPT !.search.matches = @ \o tree_matches(a, build_tree_entries(a), query, 0)]

RECURSIVE list_matches(_, _, _, _)
\* the entries of a list whose text contains the query
list_matches(texts, query, kind, idx) ==
    IF idx >= Len(texts) THEN <<>>
    ELSE (IF contains(to_lowercase(At(texts, idx)), to_lowercase(query))
          THEN <<ListMatch(kind, idx)>> ELSE <<>>)
         \o list_matches(texts, query, kind, idx + 1)

\* App::search_commit_log (a commit is modelled by its one-line text)
search_commit_log(a, query) ==
    [a EXCEPT !.search.matches = @ \o list_matches(a.git_log.commits, query, "CommitEntry", 0)]

\* App::search_branch_list
search_branch_list(a, query) ==
    [a EXCEPT !.search.matches =
        @ \o list_matches([i \in 1..Len(a.branch_list.branches) |-> a.branch_list.branches[i].name],
                          query, "BranchEntry", 0)]

\* App::search_reflog (an entry is modelled by its hash and its displayed text)
search_reflog(a, query) ==
    [a EXCEPT !.search.matches =
        @ \o list_matches([i \in 1..Len(a.reflog.entries) |-> a.reflog.entries[i].text],
                          query, "ReflogEntry", 0)]

\* App::execute_search
execute_search(a) ==
    LET a1 == [a EXCEPT !.search.matches = <<>>, !.search.current_match_idx = None]
    IN IF IsNone(a1.search.query) THEN a1
       ELSE LET query == Unwrap(a1.search.query)
            IN CASE a1.search.origin = "DiffView" -> search_diff_view(a1, query)
                 [] a1.search.origin = "FileTree" -> search_file_tree(a1, query)
                 [] a1.search.origin = "CommitLog" -> search_commit_log(a1, query)
                 [] a1.search.origin = "BranchList" -> search_branch_list(a1, query)
                 [] a1.search.origin = "Reflog" -> search_reflog(a1, query)

\* SearchState::start
search_start(a, origin) ==
    [a EXCEPT !.search.active = TRUE, !.search.input = <<>>, !.search.query = None,
              !.search.origin = origin, !.search.matches = <<>>,
              !.search.current_match_idx = None, !.search.history_idx = None,
              !.search.saved_input = <<>>]

\* SearchState::reset_matches
reset_matches(a) == [a EXCEPT !.search.matches = <<>>, !.search.current_match_idx = None]

\* SearchState::clear
search_clear(a) ==
    [a EXCEPT !.search.active = FALSE, !.search.input = <<>>,
              !.search.last_query = IF IsSome(a.search.query) THEN a.search.query ELSE @,
              !.search.query = None,
              !.search.matches = <<>>, !.search.current_match_idx = None]

\* history_prev that does not keep the input being typed
history_prev_unsaved(a) ==
    LET h == a.search.history
        hi == a.search.history_idx
    IN IF Len(h) = 0 THEN a
       ELSE IF IsNone(hi)
       THEN [a EXCEPT !.search.history_idx = Some(Len(h) - 1),
                      !.search.input = At(h, Len(h) - 1)]
       ELSE IF Unwrap(hi) > 0
       THEN [a EXCEPT !.search.history_idx = Some(Unwrap(hi) - 1),
                      !.search.input = At(h, Unwrap(hi) - 1)]
       ELSE a

\* SearchState::history_prev
history_prev(a) ==
    LET h == a.search.history
        hi == a.search.history_idx
    IN IF Len(h) = 0 THEN a
       ELSE IF IsNone(hi)
       THEN [a EXCEPT !.search.saved_input = a.search.input,
                      !.search.history_idx = Some(Len(h) - 1),
                      !.search.input = At(h, Len(h) - 1)]
       ELSE IF Unwrap(hi) > 0
       THEN [a EXCEPT !.search.history_idx = Some(Unwrap(hi) - 1),
                      !.search.input = At(h, Unwrap(hi) - 1)]
       ELSE a

\* SearchState::history_next
history_next(a) ==
    LET h == a.search.history
        hi == a.search.history_idx
    IN IF IsNone(hi) THEN a
       ELSE IF Unwrap(hi) + 1 < Len(h)
       THEN [a EXCEPT !.search.history_idx = Some(Unwrap(hi) + 1),
                      !.search.input = At(h, Unwrap(hi) + 1)]
       ELSE [a EXCEPT !.search.history_idx = None, !.search.input = a.search.saved_input]

\* a history that also keeps a query equal to its last entry
push_history_repeating(a, query) ==
    IF Len(query) = 0 THEN a
    ELSE [a EXCEPT !.search.history = Append(@, query)]

\* SearchState::push_history
push_history(a, query) ==
    IF Len(query) = 0 THEN a
    ELSE IF Len(a.search.history) > 0 /\ a.search.history[Len(a.search.history)] = query THEN a
    ELSE [a EXCEPT !.search.history = Append(@, query)]

\* ------------------------------------------------------------------------
\* The repository as the collaborators report it (src/git/repository.rs)
\* ------------------------------------------------------------------------
\* Repo::list_local_branches
RepoBranches == << [name |-> <<"m">>, is_head |-> TRUE], [name |-> <<"d">>, is_head |-> FALSE] >>
\* Repo::log_for_ref: one text per commit
RepoLog(ref_name) == << <<"a">>, <<"b">> >>
\* Repo::reflog: the full hash and the displayed text of each entry
RepoReflog == << [full_hash |-> "h1", text |-> <<"a">>], [full_hash |-> "h2", text |-> <<"b">>] >>

\* App::set_focus
set_focus(a, pane) == [a EXCEPT !.previous_pane = a.focused_pane, !.focused_pane = pane]

\* App::update_branch_log
update_branch_log(a) ==
    LET b == Get(a.branch_list.branches, a.branch_list.selected_idx)
    IN IF IsSome(b)
       THEN [a EXCEPT !.git_log.ref_name = Unwrap(b).name,
                      !.git_log.commits = RepoLog(Unwrap(b).name),
                      !.git_log.scroll = 0]
       ELSE [a EXCEPT !.git_log.commits = <<>>, !.git_log.ref_name = <<>>]

\* App::load_branches
load_branches(a) ==
    update_branch_log(
        [a EXCEPT !.branch_list.branches = RepoBranches,
                  !.branch_list.selected_idx = IF @ >= Len(RepoBranches) THEN 0 ELSE @])

\* App::load_reflog
load_reflog(a) ==
    [a EXCEPT !.reflog.entries = RepoReflog,
              !.reflog.selected_idx = IF @ >= Len(RepoReflog) THEN 0 ELSE @]

\* ------------------------------------------------------------------------
\* Background highlighting (src/app.rs:355-487)
\* ------------------------------------------------------------------------
\* what the worker thread is given for one file (src/app.rs:440-456)
file_data_of(file) ==
    [path |-> file.path, left_lines |-> highlight_lines(file.hunks, "Left"),
     right_lines |-> highlight_lines(file.hunks, "Right"), hunk_starts |-> hunk_starts(file)]

RECURSIVE file_data_list(_)
\* file_data of spawn_bg_highlight: binary files are skipped
file_data_list(files) ==
    IF Len(files) = 0 THEN <<>>
    ELSE (IF files[1].is_binary THEN <<>> ELSE <<file_data_of(files[1])>>)
         \o file_data_list(Tail(files))

\* a spawn_bg_highlight that hands every thread a sender of one channel kept
\* for the whole run, instead of a new channel per refresh
spawn_bg_highlight_shared(a) ==
    LET file_data == file_data_list(a.diff_state)
    IN IF Len(file_data) = 0 THEN a
       ELSE [a EXCEPT !.bg_highlight_rx = Some(1),
                      !.spawned = Append(@, [tx |-> 1, file_data |-> file_data])]

\* App::spawn_bg_highlight: a new channel whose receiver the App keeps and
\* whose sender moves into a new thread; channels are numbered in creation
\* order and the thread is recorded in spawned until the scheduler adopts it
spawn_bg_highlight(a) ==
    LET file_data == file_data_list(a.diff_state)
    IN IF Len(file_data) = 0 THEN a
       ELSE [a EXCEPT !.channels_created = @ + 1,
                      !.bg_highlight_rx = Some(a.channels_created + 1),
                      !.spawned = Append(@, [tx |-> a.channels_created + 1,
                                             file_data |-> file_data])]

\* the result the worker sends for one file, Option<(path, lc, rc)>
worker_result(fd) ==
    LET message(r) ==
            IF IsNone(r) THEN None
            ELSE Some([path |-> fd.path, left |-> Unwrap(r).left, right |-> Unwrap(r).right])
    IN message(highlight_all_lines(fd.path, fd.left_lines, fd.right_lines, fd.hunk_starts))

RECURSIVE insert_all(_, _)
\* HashMap::insert of each received message, in order
insert_all(map, msgs) ==
    IF Len(msgs) = 0 THEN map
    ELSE insert_all([p \in DOMAIN map \cup {msgs[1].path} |->
                        IF p = msgs[1].path THEN [left |-> msgs[1].left, right |-> msgs[1].right]
                        ELSE map[p]],
                    Tail(msgs))

\* App::drain_bg_highlights; received is what try_recv yields from the
\* receiver the App holds
drain_bg_highlights(a, received) ==
    IF IsSome(a.bg_highlight_rx)
    THEN [a EXCEPT !.bg_highlights = insert_all(@, received)]
    ELSE a

\* a needs_init that ignores the cache the App holds
needs_init_always(a, file) == TRUE

\* needs_init of ensure_file_highlight (src/app.rs:358-362)
needs_init(a, file) ==
    IF IsSome(a.highlight_cache) THEN Unwrap(a.highlight_cache).file_path # file.path ELSE TRUE

\* App::ensure_file_highlight
ensure_file_highlight(a, file, up_to) ==
    IF needs_init(a, file) /\ file.path \in DOMAIN a.bg_highlights
    THEN [a EXCEPT !.highlight_cache =
                       Some(from_precomputed(file.path, a.bg_highlights[file.path].left,
                                             a.bg_highlights[file.path].right)),
                   !.bg_highlights = [p \in DOMAIN @ \ {file.path} |-> @[p]]]
    ELSE LET a1 == IF needs_init(a, file)
                   THEN [a EXCEPT !.highlight_cache =
                            create_cache(file.path, highlight_lines(file.hunks, "Left"),
                                         highlight_lines(file.hunks, "Right"), hunk_starts(file))]
                   ELSE a
         IN IF IsSome(a1.highlight_cache)
            THEN [a1 EXCEPT !.highlight_cache = Some(extend_cache(Unwrap(@), up_to))]
            ELSE a1

\* ------------------------------------------------------------------------
\* Diff refresh and match navigation (src/app.rs:399-431, 2138-2145, 2306-2376)
\* ------------------------------------------------------------------------
RECURSIVE position_of_path(_, _, _, _)
\* entries.iter().position(|e| e is the File entry whose file has this path)
position_of_path(files, entries, path, idx) ==
    IF idx >= Len(entries) THEN None
    ELSE LET e == At(entries, idx)
         IN IF e.kind = "File" /\ IsSome(Get(files, e.file_idx))
               /\ At(files, e.file_idx).path = path
            THEN Some(idx)
            ELSE position_of_path(files, entries, path, idx + 1)

\* App::refresh_diff; env.diff is what the diffing collaborator reports for
\* the configured base, env.ref_ok whether a configured base ref resolves,
\* env.head_diff what it reports for the default base
refresh_diff(a, env) ==
    LET \* the diff is replaced, or the base falls back to HEAD
        reloaded ==
            IF IsSome(a.diff_base_ref) /\ ~env.ref_ok
            THEN [a EXCEPT !.diff_base_ref = None, !.diff_state = env.head_diff,
                           !.status_message = Status("Invalid ref, fell back to HEAD", 0, 0)]
            ELSE [a EXCEPT !.diff_state = IF IsSome(a.diff_base_ref) THEN env.diff
                                                ELSE env.head_diff]
        \* the selection is preserved by path
        reselect(a1, old_path) ==
            IF IsSome(old_path)
            THEN [a1 EXCEPT !.selected_tree_idx =
                     UnwrapOr(position_of_path(a1.diff_state, build_tree_entries(a1),
                                               Unwrap(old_path).path, 0), 0)]
            ELSE a1
        clamp(a2, len) ==
            IF a2.selected_tree_idx >= len /\ len > 0
            THEN [a2 EXCEPT !.selected_tree_idx = len - 1] ELSE a2
        clamped(a2) == clamp(a2, Len(build_tree_entries(a2)))
        reset(a3) ==
            [a3 EXCEPT !.diff_scroll_y = 0, !.diff_scroll_x = 0, !.status_message = None,
                       !.highlight_cache = None, !.content_lines_cache = None,
                       !.bg_highlights = <<>>, !.bg_highlight_rx = None,
                       !.epoch = @ + 1]
    IN spawn_bg_highlight(reset_matches(reset(clamped(reselect(reloaded, selected_file(a))))))

\* App::re_search_on_file_change
re_search_on_file_change(a) ==
    IF a.search.origin = "DiffView" /\ IsSome(a.search.query)
    THEN search_diff_view([reset_matches(a) EXCEPT !.content_lines_cache = None],
                          Unwrap(a.search.query))
    ELSE a

\* jump_to_match with the index stopped at the ends of the match list
jump_to_match_no_wrap(a, forward) ==
    LET total == Len(a.search.matches)
        cur == a.search.current_match_idx
    IN IF IsNone(a.search.query) \/ total = 0 THEN a
       ELSE [a EXCEPT !.search.current_match_idx =
                Some(IF IsSome(cur)
                     THEN IF forward THEN Min(Unwrap(cur) + 1, total - 1)
                                     ELSE Max(Unwrap(cur) - 1, 0)
                     ELSE IF forward THEN 0 ELSE total - 1)]

\* App::jump_to_match
jump_to_match(a, forward) ==
    LET next_idx(cur, total) ==
            IF IsSome(cur)
            THEN IF forward THEN (Unwrap(cur) + 1) % total ELSE (Unwrap(cur) + total - 1) % total
            ELSE IF forward THEN 0 ELSE total - 1
        navigate(a2, m) ==
            CASE m.kind = "DiffLine" ->
                   IF a2.diff_view_mode = "Scroll"
                   THEN [a2 EXCEPT !.diff_scroll_y =
                            saturating_sub(m.row, a2.diff_view_height \div 3)]
                   ELSE scroll_to_cursor(
                            [a2 EXCEPT !.cursor_pos = CursorPos(m.row, m.col_start, m.side),
                                       !.content_lines_cache = None])
              [] m.kind = "TreeEntry" -> [a2 EXCEPT !.selected_tree_idx = m.idx]
              [] m.kind = "CommitEntry" -> [a2 EXCEPT !.git_log.scroll = m.idx]
              [] m.kind = "BranchEntry" ->
                   update_branch_log([a2 EXCEPT !.branch_list.selected_idx = m.idx])
              [] m.kind = "ReflogEntry" -> [a2 EXCEPT !.reflog.selected_idx = m.idx]
        select(a1, new_idx) ==
            [navigate([a1 EXCEPT !.search.current_match_idx = Some(new_idx)],
                      At(a1.search.matches, new_idx))
                EXCEPT !.status_message = Status("match", new_idx + 1, Len(a1.search.matches))]
        jump(a1) ==
            IF Len(a1.search.matches) = 0
            THEN [a1 EXCEPT !.status_message = Status("Pattern not found", 0, 0)]
            ELSE select(a1, next_idx(a1.search.current_match_idx, Len(a1.search.matches)))
    IN IF IsSome(a.search.query) THEN jump(a)
       ELSE IF IsSome(a.search.last_query)
       THEN jump(execute_search([a EXCEPT !.search.query = a.search.last_query]))
       ELSE a

\* App::handle_search_input_key
handle_search_input_key(a, key) ==
    CASE key.code = "Enter" ->
           LET query == a.search.input
           IN IF Len(query) = 0 THEN [a EXCEPT !.search.active = FALSE]
              ELSE jump_to_match(
                       execute_search([push_history(a, query) EXCEPT
                                           !.search.active = FALSE,
                                           !.search.query = Some(query)]),
                       TRUE)
      [] key.code = "Esc" -> [a EXCEPT !.search.active = FALSE, !.search.input = <<>>]
      [] key.code = "Backspace" ->
           [a EXCEPT !.search.input = IF Len(@) = 0 THEN @ ELSE SubSeq(@, 1, Len(@) - 1),
                     !.search.history_idx = None]
      [] key.code = "Up" \/ (key.code = "p" /\ key.ctrl) -> history_prev(a)
      [] key.code = "Down" \/ (key.code = "n" /\ key.ctrl) -> history_next(a)
      [] OTHER ->
           IF IsChar(key.code)
           THEN [a EXCEPT !.search.input = Append(@, key.code), !.search.history_idx = None]
           ELSE a

\* ------------------------------------------------------------------------
\* Diff view key handlers (src/app.rs:1315-1543, 1672-1819)
\* ------------------------------------------------------------------------
\* a count that is never applied
take_count_ignored(a) == 1

\* App::take_count: the count consumed and the App left behind
take_count(a) == UnwrapOr(a.count, 1)
count_taken(a) == [a EXCEPT !.count = None]

\* self.scroll_to_cursor() at the end of a handler, reached unless the
\* handler aborted
scroll_unless_panicked(r) == IF r.panicked THEN r ELSE scroll_to_cursor(r)

\* App::handle_diff_scroll_key
handle_diff_scroll_key(a, key) ==
    LET max_scroll == saturating_sub(a.diff_total_lines, a.diff_view_height)
        half == a.diff_view_height \div 2
    IN CASE key.code \in {"j", "Down"} ->
              [a EXCEPT !.diff_scroll_y = Min(a.diff_scroll_y + 1, max_scroll)]
         [] key.code \in {"k", "Up"} ->
              [a EXCEPT !.diff_scroll_y = saturating_sub(a.diff_scroll_y, 1)]
         [] key.code = "d" /\ key.ctrl ->
              [a EXCEPT !.diff_scroll_y = Min(a.diff_scroll_y + half, max_scroll)]
         [] key.code = "u" /\ key.ctrl ->
              [a EXCEPT !.diff_scroll_y = saturating_sub(a.diff_scroll_y, half)]
         [] key.code = "g" -> [a EXCEPT !.diff_scroll_y = 0]
         [] key.code = "G" -> [a EXCEPT !.diff_scroll_y = max_scroll]
         [] key.code \in {"h", "Left"} ->
              [a EXCEPT !.diff_scroll_x = saturating_sub(a.diff_scroll_x, 4)]
         [] key.code = "Esc" ->
              IF IsSome(a.search.query) THEN search_clear(a) ELSE set_focus(a, a.previous_pane)
         [] key.code \in {"l", "Right"} ->
              [a EXCEPT !.diff_scroll_x = a.diff_scroll_x + 4]
         [] key.code = "/" -> [search_start(a, "DiffView") EXCEPT !.pending_key = None]
         [] key.code \in {"n", "N"} -> jump_to_match(a, key.code = "n")
         [] key.code = "i" ->
              LET a1 == content_lines_cached(a)
              IN IF Len(content_lines(a)) > 0
                 THEN [a1 EXCEPT !.diff_view_mode = "Normal",
                                 !.cursor_pos = CursorPos(a.diff_scroll_y, 0, "Left")]
                 ELSE a1
         [] OTHER -> a

\* the motion arms shared verbatim by handle_diff_normal_key (src/app.rs:1458-1508)
\* and handle_diff_visual_key (src/app.rs:1721-1769); n is the count, total > 0
motion_key(a, code, lines, n) ==
    LET total == Len(lines)
    IN CASE code \in {"h", "Left"} -> SetCol(a, saturating_sub(a.cursor_pos.col, n))
         [] code \in {"l", "Right"} ->
              SetCol(a, Min(a.cursor_pos.col + n, saturating_sub(current_line_len(a, lines), 1)))
         [] code \in {"j", "Down"} -> clamp_col(SetRow(a, Min(a.cursor_pos.row + n, total - 1)), lines)
         [] code \in {"k", "Up"} -> clamp_col(SetRow(a, saturating_sub(a.cursor_pos.row, n)), lines)
         [] code = "w" -> repeat_word_forward(a, lines, n)
         [] code = "b" -> repeat_word_backward(a, lines, n)
         [] code = "e" -> repeat_word_end(a, lines, n)
         [] code = "0" -> SetCol(a, 0)
         [] code = "$" -> SetCol(a, saturating_sub(current_line_len(a, lines), 1))
         [] code = "g" -> [a EXCEPT !.pending_key = Some("g")]
         [] code = "G" ->
              clamp_col(SetCol(SetRow(a, IF n > 1 THEN Min(n - 1, total - 1) ELSE total - 1), 0),
                        lines)
MotionCodes == {"h", "Left", "l", "Right", "j", "Down", "k", "Up", "w", "b", "e", "0", "$", "g", "G"}

\* the pending-g arm (src/app.rs:1411-1429, 1681-1693): gg or {count}gg
goto_line(a, code, lines) ==
    LET a1 == IF code = "g"
              THEN clamp_col(
                       SetCol(SetRow(a, IF IsSome(a.count)
                                        THEN Min(saturating_sub(Unwrap(a.count), 1),
                                                 saturating_sub(Len(lines), 1))
                                        ELSE 0), 0),
                       lines)
              ELSE a
    IN [a1 EXCEPT !.count = None]

\* the digit arms (src/app.rs:1437-1448, 1701-1711): Some(new count) when the
\* key accumulates into the count prefix
count_digit(a, code) ==
    IF code \in DigitChars THEN Some(UnwrapOr(a.count, 0) * 10 + DigitVal(code))
    ELSE IF code = "0" /\ IsSome(a.count) THEN Some(Unwrap(a.count) * 10)
    ELSE None

\* App::handle_diff_normal_key
handle_diff_normal_key(a, key, env) ==
    LET \* the pending-key arms; a0 has pending_key taken
        pending_arm(pending, a0, lines) ==
            CASE pending = "w" ->
                   [a0 EXCEPT !.cursor_pos.side = IF key.code = "h" THEN "Left"
                                                  ELSE IF key.code = "l" THEN "Right" ELSE @,
                              !.count = None]
              [] pending = "y" ->
                   execute_yank_motion(count_taken(content_lines_cached(a0)), key.code,
                                       lines, take_count(a0), env)
              [] pending = "g" ->
                   scroll_unless_panicked(goto_line(content_lines_cached(a0), key.code, lines))
              [] OTHER -> [a0 EXCEPT !.count = None]
        \* the key match (src/app.rs:1457-1541); a1 has the count taken
        key_arm(a1, lines, n) ==
            CASE key.code \in MotionCodes -> motion_key(a1, key.code, lines, n)
              [] key.code = "y" -> [a1 EXCEPT !.pending_key = Some("y")]
              [] key.code = "v" -> [a1 EXCEPT !.diff_view_mode = "Visual",
                                              !.visual_anchor = Some(a1.cursor_pos)]
              [] key.code = "V" -> [a1 EXCEPT !.diff_view_mode = "VisualLine",
                                              !.visual_anchor = Some(a1.cursor_pos)]
              [] key.code = "/" -> [search_start(a1, "DiffView") EXCEPT
                                        !.pending_key = None, !.count = None]
              [] key.code \in {"n", "N"} -> jump_to_match(a1, key.code = "n")
              [] key.code = "Esc" ->
                   IF IsSome(a1.search.query) THEN search_clear(a1)
                   ELSE [a1 EXCEPT !.diff_view_mode = "Scroll", !.pending_key = None,
                                   !.count = None]
              [] OTHER -> a1
        command(a1, lines, n) ==
            IF Len(lines) = 0 THEN a1 ELSE scroll_unless_panicked(key_arm(a1, lines, n))
        accumulate(digit) ==
            IF IsSome(digit) THEN [a EXCEPT !.count = digit]
            ELSE command(content_lines_cached(count_taken(a)), content_lines(a), take_count(a))
    IN IF key.ctrl /\ key.code = "w" THEN [a EXCEPT !.pending_key = Some("w")]
       ELSE IF IsSome(a.pending_key)
       THEN pending_arm(Unwrap(a.pending_key), [a EXCEPT !.pending_key = None],
                        content_lines(a))
       ELSE accumulate(count_digit(a, key.code))

\* a visual-mode handler whose exits to Normal leave the anchor in place
handle_diff_visual_key_anchored(a, key, env) ==
    IF key.code \in {"y", "Esc", "v", "V"} THEN [a EXCEPT !.diff_view_mode = "Normal"] ELSE a

\* App::handle_diff_visual_key
handle_diff_visual_key(a, key, env) ==
    LET \* the pending-key arms; a0 has pending_key taken
        pending_arm(prefix, a0, lines) ==
            CASE prefix \in {"i", "a"} ->
                   apply_text_object(content_lines_cached(a0), prefix, key.code, lines)
              [] prefix = "g" -> goto_line(content_lines_cached(a0), key.code, lines)
              [] OTHER -> a0
        \* the key match (src/app.rs:1720-1817); a1 has the count taken
        key_arm(a1, lines, n) ==
            CASE key.code \in MotionCodes -> motion_key(a1, key.code, lines, n)
              [] key.code \in {"i", "a"} -> [a1 EXCEPT !.pending_key = Some(key.code)]
              [] key.code = "y" ->
                   [copy_text(a1, yank_selection(a1, lines), env) EXCEPT
                        !.diff_view_mode = "Normal", !.visual_anchor = None]
              [] key.code = "v" ->
                   IF a1.diff_view_mode = "Visual"
                   THEN [a1 EXCEPT !.diff_view_mode = "Normal", !.visual_anchor = None]
                   ELSE [a1 EXCEPT !.diff_view_mode = "Visual",
                                   !.visual_anchor = Some(a1.cursor_pos)]
              [] key.code = "V" ->
                   IF a1.diff_view_mode = "VisualLine"
                   THEN [a1 EXCEPT !.diff_view_mode = "Normal", !.visual_anchor = None]
                   ELSE [a1 EXCEPT !.diff_view_mode = "VisualLine",
                                   !.visual_anchor = Some(a1.cursor_pos)]
              [] key.code = "/" -> [search_start(a1, "DiffView") EXCEPT
                                        !.pending_key = None, !.count = None]
              [] key.code \in {"n", "N"} -> jump_to_match(a1, key.code = "n")
              [] key.code = "Esc" ->
                   [a1 EXCEPT !.diff_view_mode = "Normal", !.visual_anchor = None,
                              !.pending_key = None, !.count = None]
              [] OTHER -> a1
        command(a1, lines, n) ==
            IF Len(lines) = 0 THEN a1 ELSE scroll_unless_panicked(key_arm(a1, lines, n))
        accumulate(digit) ==
            IF IsSome(digit) THEN [a EXCEPT !.count = digit]
            ELSE command(content_lines_cached(count_taken(a)), content_lines(a), take_count(a))
    IN IF IsSome(a.pending_key)
       THEN scroll_unless_panicked(
                pending_arm(Unwrap(a.pending_key), [a EXCEPT !.pending_key = None],
                            content_lines(a)))
       ELSE accumulate(count_digit(a, key.code))

\* App::handle_diff_view_key
handle_diff_view_key(a, key, env) ==
    CASE a.diff_view_mode = "Scroll" -> handle_diff_scroll_key(a, key)
      [] a.diff_view_mode = "Normal" -> handle_diff_normal_key(a, key, env)
      [] a.diff_view_mode \in {"Visual", "VisualLine"} -> handle_diff_visual_key(a, key, env)

\* ------------------------------------------------------------------------
\* Pane key handlers (src/app.rs:524-802, 1233-1313)
\* ------------------------------------------------------------------------
\* App::select_branch
select_branch(a, env) ==
    LET b == Get(a.branch_list.branches, a.branch_list.selected_idx)
    IN IF IsSome(b)
       THEN refresh_diff(
                [a EXCEPT !.diff_base_ref = IF Unwrap(b).is_head THEN None
                                            ELSE Some(Unwrap(b).name)], env)
       ELSE a

\* App::open_branch_action_menu
open_branch_action_menu(a) ==
    LET b == Get(a.branch_list.branches, a.branch_list.selected_idx)
    IN IF IsSome(b)
       THEN [a EXCEPT !.branch_action_menu =
                Some([branch_name |-> Unwrap(b).name, is_head |-> Unwrap(b).is_head,
                      selected_idx |-> 0])]
       ELSE a

\* BranchAction::ALL
BranchActionALL == <<"Switch", "Delete", "DiffBase">>

\* App::execute_branch_action; env.switch_ok / env.delete_ok are what the
\* repository answers
execute_branch_action(a, action, env) ==
    IF IsNone(a.branch_action_menu) THEN a
    ELSE LET menu == Unwrap(a.branch_action_menu)
             a0 == [a EXCEPT !.branch_action_menu = None]
         IN CASE action = "Switch" ->
                   IF menu.is_head
                   THEN [a0 EXCEPT !.status_message = Status("Already on this branch", 0, 0)]
                   ELSE IF env.switch_ok
                   THEN refresh_diff(
                            load_branches([a0 EXCEPT !.status_message = Status("Switched to", 0, 0)]),
                            env)
                   ELSE [a0 EXCEPT !.error_dialog = Some([title |-> "Switch failed"])]
              [] action = "Delete" ->
                   IF menu.is_head
                   THEN [a0 EXCEPT !.status_message =
                                       Status("Cannot delete the current branch", 0, 0)]
                   ELSE IF env.delete_ok
                   THEN load_branches([a0 EXCEPT !.status_message = Status("Deleted", 0, 0)])
                   ELSE [a0 EXCEPT !.error_dialog = Some([title |-> "Delete failed"])]
              [] action = "DiffBase" -> select_branch(a0, env)

\* App::handle_branch_action_menu_key
handle_branch_action_menu_key(a, key, env) ==
    LET \* the action a key runs, if any: Enter runs the selected one
        action_of(menu) ==
            CASE key.code = "Enter" -> Some(At(BranchActionALL, menu.selected_idx))
              [] key.code = "s" -> Some("Switch")
              [] key.code = "d" -> Some("Delete")
              [] key.code = "b" -> Some("DiffBase")
              [] OTHER -> None
        menu_key(menu, action) ==
            CASE key.code \in {"Esc", "q"} -> [a EXCEPT !.branch_action_menu = None]
              [] key.code \in {"j", "Down"} ->
                   IF menu.selected_idx + 1 < Len(BranchActionALL)
                   THEN [a EXCEPT !.branch_action_menu =
                                      Some([menu EXCEPT !.selected_idx = @ + 1])]
                   ELSE a
              [] key.code \in {"k", "Up"} ->
                   IF menu.selected_idx > 0
                   THEN [a EXCEPT !.branch_action_menu =
                                      Some([menu EXCEPT !.selected_idx = @ - 1])]
                   ELSE a
              [] IsSome(action) -> execute_branch_action(a, Unwrap(action), env)
              [] OTHER -> a
    IN IF IsNone(a.branch_action_menu) THEN a
       ELSE menu_key(Unwrap(a.branch_action_menu), action_of(Unwrap(a.branch_action_menu)))

\* App::handle_branch_list_key
handle_branch_list_key(a, key, env) ==
    CASE key.code = "h" -> set_focus(a, "FileTree")
      [] key.code = "l" -> set_focus(a, "Reflog")
      [] key.code = "i" -> set_focus(a, "GitLog")
      [] key.code = "Esc" ->
           IF IsSome(a.search.query) THEN search_clear(a)
           ELSE IF IsSome(a.diff_base_ref)
           THEN refresh_diff([a EXCEPT !.diff_base_ref = None], env)
           ELSE a
      [] key.code \in {"j", "Down"} ->
           IF a.branch_list.selected_idx + 1 < Len(a.branch_list.branches)
           THEN update_branch_log([a EXCEPT !.branch_list.selected_idx = @ + 1])
           ELSE a
      [] key.code \in {"k", "Up"} ->
           IF a.branch_list.selected_idx > 0
           THEN update_branch_log([a EXCEPT !.branch_list.selected_idx = @ - 1])
           ELSE a
      [] key.code = "Enter" -> open_branch_action_menu(a)
      [] key.code = "/" -> search_start(a, "BranchList")
      [] key.code \in {"n", "N"} -> jump_to_match(a, key.code = "n")
      [] OTHER -> a

\* App::handle_git_log_key
handle_git_log_key(a, key) ==
    CASE key.code = "h" -> set_focus(a, "Reflog")
      [] key.code = "Esc" ->
           IF IsSome(a.search.query) THEN search_clear(a) ELSE set_focus(a, a.previous_pane)
      [] key.code \in {"j", "Down"} -> [a EXCEPT !.git_log.scroll = @ + 1]
      [] key.code \in {"k", "Up"} -> [a EXCEPT !.git_log.scroll = saturating_sub(@, 1)]
      [] key.code = "d" /\ key.ctrl -> [a EXCEPT !.git_log.scroll = @ + 10]
      [] key.code = "u" /\ key.ctrl -> [a EXCEPT !.git_log.scroll = saturating_sub(@, 10)]
      [] key.code = "g" -> [a EXCEPT !.git_log.scroll = 0]
      [] key.code = "G" ->
           [a EXCEPT !.git_log.scroll = saturating_sub(Len(a.git_log.commits), 10)]
      [] key.code = "/" -> search_start(a, "CommitLog")
      [] key.code \in {"n", "N"} -> jump_to_match(a, key.code = "n")
      [] OTHER -> a

\* App::handle_reflog_key
handle_reflog_key(a, key, env) ==
    LET half == Max(a.reflog.view_height \div 2, 1)
        len == Len(a.reflog.entries)
    IN CASE key.code = "h" -> set_focus(a, "BranchList")
         [] key.code = "i" -> set_focus(a, "GitLog")
         [] key.code = "Esc" ->
              IF IsSome(a.search.query) THEN search_clear(a) ELSE set_focus(a, "BranchList")
         [] key.code \in {"j", "Down"} ->
              IF a.reflog.selected_idx + 1 < len
              THEN [a EXCEPT !.reflog.selected_idx = @ + 1] ELSE a
         [] key.code \in {"k", "Up"} ->
              IF a.reflog.selected_idx > 0
              THEN [a EXCEPT !.reflog.selected_idx = @ - 1] ELSE a
         [] key.code = "d" /\ key.ctrl ->
              [a EXCEPT !.reflog.selected_idx = Min(@ + half, saturating_sub(len, 1))]
         [] key.code = "u" /\ key.ctrl ->
              [a EXCEPT !.reflog.selected_idx = saturating_sub(@, half)]
         [] key.code = "g" -> [a EXCEPT !.reflog.selected_idx = 0]
         [] key.code = "G" ->
              IF len > 0 THEN [a EXCEPT !.reflog.selected_idx = len - 1] ELSE a
         [] key.code = "Enter" ->
              LET e == Get(a.reflog.entries, a.reflog.selected_idx)
              IN IF IsSome(e)
                 THEN refresh_diff(
                          [a EXCEPT !.diff_base_ref = Some(<<Unwrap(e).full_hash>>)], env)
                 ELSE a
         [] key.code = "/" -> search_start(a, "Reflog")
         [] key.code \in {"n", "N"} -> jump_to_match(a, key.code = "n")
         [] OTHER -> a

\* toggle of a directory in collapsed_dirs (src/app.rs:1276-1281, 1287-1292)
toggle_collapsed(a, path) ==
    [a EXCEPT !.collapsed_dirs = IF path \in @ THEN @ \ {path} ELSE @ \cup {path}]

\* App::handle_file_tree_key
handle_file_tree_key(a, key) ==
    CASE key.code = "l" -> set_focus(a, "BranchList")
      [] key.code = "i" -> set_focus(a, "DiffView")
      [] key.code = "Esc" -> IF IsSome(a.search.query) THEN search_clear(a) ELSE a
      [] OTHER ->
           LET entries == build_tree_entries(a)
               sel == Get(entries, a.selected_tree_idx)
           IN IF Len(entries) = 0 THEN a
              ELSE CASE key.code \in {"j", "Down"} ->
                          IF a.selected_tree_idx + 1 < Len(entries)
                          THEN re_search_on_file_change(
                                   [a EXCEPT !.selected_tree_idx = @ + 1,
                                             !.diff_scroll_y = 0, !.diff_scroll_x = 0])
                          ELSE a
                     [] key.code \in {"k", "Up"} ->
                          IF a.selected_tree_idx > 0
                          THEN re_search_on_file_change(
                                   [a EXCEPT !.selected_tree_idx = @ - 1,
                                             !.diff_scroll_y = 0, !.diff_scroll_x = 0])
                          ELSE a
                     [] key.code = " " ->
                          IF IsSome(sel) /\ Unwrap(sel).kind = "Dir"
                          THEN toggle_collapsed(a, Unwrap(sel).path) ELSE a
                     [] key.code \in {"Right", "Enter"} ->
                          IF IsNone(sel) THEN a
                          ELSE IF Unwrap(sel).kind = "Dir"
                          THEN toggle_collapsed(a, Unwrap(sel).path)
                          ELSE [set_focus(a, "DiffView") EXCEPT
                                    !.diff_scroll_y = 0, !.diff_scroll_x = 0]
                     [] key.code = "/" -> search_start(a, "FileTree")
                     [] key.code \in {"n", "N"} -> jump_to_match(a, key.code = "n")
                     [] OTHER -> a

\* ------------------------------------------------------------------------
\* Key dispatch, construction and the main loop (src/app.rs:293-344, 912-1059;
\* src/main.rs:42-152; src/ui/diff_view.rs:78-187; src/ui/reflog.rs)
\* ------------------------------------------------------------------------
\* App::handle_github_key as far as it touches the fields of the Git view:
\* the GitHub panes keep their state in GitHubState
handle_github_key(a, key) ==
    CASE key.code = "q" -> [a EXCEPT !.should_quit = TRUE]
      [] key.code = "?" -> [a EXCEPT !.show_help = TRUE]
      [] OTHER -> a

\* the search origin of the focused pane (src/app.rs:976-982)
origin_of(pane) ==
    CASE pane = "DiffView" -> "DiffView"
      [] pane = "FileTree" -> "FileTree"
      [] pane = "BranchList" -> "BranchList"
      [] pane = "GitLog" -> "CommitLog"
      [] pane = "Reflog" -> "Reflog"

\* Tab order (src/app.rs:1000-1006) and BackTab order (src/app.rs:1010-1016)
next_pane(pane) ==
    CASE pane = "FileTree" -> "BranchList"
      [] pane = "BranchList" -> "Reflog"
      [] pane = "Reflog" -> "GitLog"
      [] pane = "GitLog" -> "DiffView"
      [] pane = "DiffView" -> "FileTree"
prev_pane(pane) ==
    CASE pane = "FileTree" -> "DiffView"
      [] pane = "BranchList" -> "FileTree"
      [] pane = "Reflog" -> "BranchList"
      [] pane = "GitLog" -> "Reflog"
      [] pane = "DiffView" -> "GitLog"

\* App::handle_key: the App after the key
handle_key(a, key, env) ==
    LET \* Normal/Visual modes take every key that reaches the panes
        modal == a.view_mode = "Git" /\ a.focused_pane = "DiffView"
                     /\ a.diff_view_mode # "Scroll"
        \* the keys the Git view answers itself in Scroll mode (src/app.rs:952-1018)
        global == key.code \in {"1", "2", "q", "?", "/", "n", "N", "r", "e", "Tab", "BackTab"}
    IN IF a.show_help THEN [a EXCEPT !.show_help = FALSE]
       ELSE IF IsSome(a.error_dialog) THEN [a EXCEPT !.error_dialog = None]
       ELSE IF IsSome(a.branch_action_menu) THEN handle_branch_action_menu_key(a, key, env)
       ELSE IF a.search.active THEN handle_search_input_key(a, key)
       ELSE IF key.ctrl /\ key.code = "c" THEN [a EXCEPT !.should_quit = TRUE]
       ELSE IF ~modal /\ key.code = "1" THEN [a EXCEPT !.view_mode = "Git"]
       ELSE IF ~modal /\ key.code = "2" THEN [a EXCEPT !.view_mode = "GitHub"]
       ELSE IF ~modal /\ a.view_mode = "GitHub" THEN handle_github_key(a, key)
       ELSE IF ~modal /\ global
       THEN CASE key.code = "q" -> [a EXCEPT !.should_quit = TRUE]
              [] key.code = "?" -> [a EXCEPT !.show_help = TRUE]
              [] key.code = "/" -> search_start(a, origin_of(a.focused_pane))
              [] key.code \in {"n", "N"} -> jump_to_match(a, key.code = "n")
              [] key.code = "r" -> load_reflog(load_branches(refresh_diff(a, env)))
              [] key.code = "e" -> a
              [] key.code = "Tab" -> set_focus(a, next_pane(a.focused_pane))
              [] key.code = "BackTab" -> set_focus(a, prev_pane(a.focused_pane))
       ELSE \* the mode handler (src/app.rs:947) or the focused pane's
            \* handler (src/app.rs:1019-1025)
            CASE a.focused_pane = "FileTree" -> handle_file_tree_key(a, key)
              [] a.focused_pane = "BranchList" -> handle_branch_list_key(a, key, env)
              [] a.focused_pane = "GitLog" -> handle_git_log_key(a, key)
              [] a.focused_pane = "Reflog" -> handle_reflog_key(a, key, env)
              [] a.focused_pane = "DiffView" -> handle_diff_view_key(a, key, env)

\* App::handle_key: its Ok(true), the signal to open the editor
opens_editor(a, key) ==
    /\ ~a.show_help /\ IsNone(a.error_dialog) /\ IsNone(a.branch_action_menu)
    /\ ~a.search.active /\ ~(key.ctrl /\ key.code = "c")
    /\ ~(a.view_mode = "Git" /\ a.focused_pane = "DiffView" /\ a.diff_view_mode # "Scroll")
    /\ a.view_mode = "Git" /\ key.code = "e"

\* App::new
AppNew(diff_state) ==
    spawn_bg_highlight(load_reflog(load_branches(
        [should_quit |-> FALSE, view_mode |-> "Git", diff_state |-> diff_state,
         collapsed_dirs |-> {}, selected_tree_idx |-> 0,
         focused_pane |-> "FileTree", previous_pane |-> "FileTree",
         diff_scroll_y |-> 0, diff_scroll_x |-> 0, diff_total_lines |-> 0,
         diff_view_height |-> 0, show_help |-> FALSE, status_message |-> None,
         diff_view_mode |-> "Scroll", cursor_pos |-> CursorPos(0, 0, "Left"),
         visual_anchor |-> None, pending_key |-> None, count |-> None,
         highlight_cache |-> None, content_lines_cache |-> None,
         bg_highlights |-> <<>>, bg_highlight_rx |-> None, diff_base_ref |-> None,
         branch_list |-> [branches |-> <<>>, selected_idx |-> 0],
         git_log |-> [commits |-> <<>>, scroll |-> 0, ref_name |-> <<>>],
         reflog |-> [entries |-> <<>>, selected_idx |-> 0, view_height |-> 0],
         branch_action_menu |-> None, error_dialog |-> None, search |-> SearchStateNew,
         clipboard |-> None, panicked |-> FALSE, channels_created |-> 0,
         spawned |-> <<>>, epoch |-> 1])))

\* ui::diff_view::render: what drawing the diff pane writes back into the App
render_diff_view(a) ==
    LET f == selected_file(a)
    IN IF IsNone(f) \/ Unwrap(f).is_binary THEN [a EXCEPT !.diff_total_lines = 0]
       ELSE LET file == Unwrap(f)
                a1 == ensure_file_highlight(a, file, a.diff_scroll_y + ViewHeight + 1)
            IN [a1 EXCEPT !.diff_total_lines = Len(highlight_lines(file.hunks, "Left")),
                          !.diff_view_height = ViewHeight]

\* terminal.draw of the main loop (src/main.rs:48-89)
draw(a) ==
    IF a.view_mode = "Git"
    THEN LET a1 == [a EXCEPT !.reflog.view_height = ViewHeight]
         IN IF a.focused_pane \in {"BranchList", "GitLog", "Reflog"} THEN a1
            ELSE render_diff_view(a1)
    ELSE a

\* main, the Event::Key arm (src/main.rs:93-142); env.editor is how the
\* external editor exits
on_key(a, key, env) ==
    LET after(a1) ==
            IF a1.panicked \/ a1.should_quit THEN a1
            ELSE IF opens_editor(a, key) /\ IsSome(selected_file(a1))
            THEN CASE env.editor = "success" -> refresh_diff(a1, env)
                   [] env.editor = "failure" ->
                        [a1 EXCEPT !.status_message = Status("Editor exited with", 0, 0)]
                   [] OTHER -> [a1 EXCEPT !.status_message = Status("Failed to open editor", 0, 0)]
            ELSE a1
    IN after(handle_key(a, key, env))

\* main, the Event::FsChange arm (src/main.rs:143-149)
on_fs_change(a, env) == refresh_diff(load_reflog(load_branches(a)), env)

\* one iteration of the main loop up to the event (src/main.rs:43-89)
loop_head(a, received) == draw(drain_bg_highlights(a, received))

\* ------------------------------------------------------------------------
\* The application: main loop and highlight workers
\* ------------------------------------------------------------------------
vars == <<app, workers, chan, hist, hl, ev>>

\* what the collaborators can answer during one event
Env(diff, clip, editor) ==
    [diff |-> diff, head_diff |-> diff, ref_ok |-> TRUE, clip |-> clip,
     switch_ok |-> TRUE, delete_ok |-> TRUE, editor |-> editor]

Running == ~app.panicked /\ ~app.should_quit

\* what try_recv yields: the queue of the channel whose receiver the App holds
Received == IF app.bg_highlight_rx = Some(chan.id) THEN chan.queue ELSE <<>>

\* the App at the point the main loop waits for an event
AtEvent == loop_head(app, Received)

\* the highlight cache was created on demand (it carries parser state)
on_demand(a) == IsSome(a.highlight_cache) /\ IsSome(Unwrap(a.highlight_cache).incremental)

\* the threads spawn_bg_highlight started, each at its first file
started(a) == [i \in 1..Len(a.spawned) |->
                  [tx |-> a.spawned[i].tx, file_data |-> a.spawned[i].file_data, next |-> 0]]

\* the explored part of the unbounded counters
InBound(a) ==
    /\ a.epoch <= MaxEpoch
    /\ UnwrapOr(a.count, 0) <= MaxCount
    /\ a.diff_scroll_x <= MaxScrollX
    /\ a.git_log.scroll <= MaxLogScroll
    /\ Len(a.search.input) <= MaxInput
    /\ Len(a.search.history) <= MaxHistory

\* the state after one turn of the main loop: at is the App when the event
\* arrived, a2 the App the event's handler leaves
Commit(at, a2) ==
    /\ app' = [a2 EXCEPT !.spawned = <<>>]
    /\ workers' = workers \o started(a2)
    /\ chan' = IF a2.bg_highlight_rx = Some(chan.id) THEN [chan EXCEPT !.queue = <<>>]
               ELSE [id |-> UnwrapOr(a2.bg_highlight_rx, 0), queue |-> <<>>]
    /\ hist' = IF a2.epoch # app.epoch THEN {}
               ELSE IF on_demand(at) THEN hist \cup {Unwrap(at.highlight_cache).file_path}
               ELSE hist
    /\ UNCHANGED <<hl, ev>>

Turn(at, a2) == InBound(a2) /\ Commit(at, a2)

\* Event::Key
KeyPress(keys, envs) ==
    LET handle(at) == \E key \in keys, env \in envs : Turn(at, on_key(at, key, env))
    IN Running /\ handle(AtEvent)

\* Event::FsChange
FsChange(envs) ==
    LET handle(at) == \E env \in envs : Turn(at, on_fs_change(at, env))
    IN Running /\ handle(AtEvent)

\* Event::Tick
Tick ==
    LET handle(at) == Turn(at, at)
    IN Running /\ handle(AtEvent)

\* a worker thread that ignores the failure of a send
WorkerStepUnchecked ==
    \E i \in 1..Len(workers) :
        LET alive == app.bg_highlight_rx = Some(workers[i].tx) /\ chan.id = workers[i].tx
            last == workers[i].next + 1 >= Len(workers[i].file_data)
            send(r) ==
                /\ chan' = IF IsSome(r) /\ alive
                           THEN [chan EXCEPT !.queue = Append(@, Unwrap(r))] ELSE chan
                /\ workers' = IF last
                              THEN SubSeq(workers, 1, i - 1)
                                       \o SubSeq(workers, i + 1, Len(workers))
                              ELSE [workers EXCEPT ![i].next = @ + 1]
           IN /\ send(worker_result(At(workers[i].file_data, workers[i].next)))
              /\ UNCHANGED <<app, hist, hl, ev>>

\* one iteration of the worker thread's loop (src/app.rs:465-476): highlight
\* the next file and send the result; a failed send ends the thread
WorkerStep ==
    \E i \in 1..Len(workers) :
        LET alive == app.bg_highlight_rx = Some(workers[i].tx) /\ chan.id = workers[i].tx
            last == workers[i].next + 1 >= Len(workers[i].file_data)
            send(r) ==
                /\ chan' = IF IsSome(r) /\ alive
                           THEN [chan EXCEPT !.queue = Append(@, Unwrap(r))] ELSE chan
                /\ workers' = IF (IsSome(r) /\ ~alive) \/ last
                              THEN SubSeq(workers, 1, i - 1)
                                       \o SubSeq(workers, i + 1, Len(workers))
                              ELSE [workers EXCEPT ![i].next = @ + 1]
           IN /\ send(worker_result(At(workers[i].file_data, workers[i].next)))
              /\ UNCHANGED <<app, hist, hl, ev>>

Idle == [pc |-> "idle"]

InitApp(diffs) ==
    /\ \E d \in diffs :
          /\ app = [AppNew(d) EXCEPT !.spawned = <<>>]
          /\ workers = started(AppNew(d))
          /\ chan = [id |-> UnwrapOr(AppNew(d).bg_highlight_rx, 0), queue |-> <<>>]
    /\ hist = {}
    /\ hl = Idle
    /\ ev = Idle

\* the diffs, keys and answers explored by Spec
Diffs == {DiffA, DiffA2, DiffEmpty}
Keys == {K("i"), K("j"), K("v"), K("y"), K("("), K("Esc")}
Envs == {Env(d, "ok", "success") : d \in Diffs}

Init == InitApp(Diffs)
Next == KeyPress(Keys, Envs) \/ FsChange(Envs) \/ Tick \/ WorkerStep
Spec == Init /\ [][Next]_vars

\* ------------------------------------------------------------------------
\* Properties of the application
\* ------------------------------------------------------------------------
\* C2: every key event is handled without an out-of-bounds index or an
\* invalid slice range: no reachable state is a panic state.
C2_NoPanic == ~app.panicked

\* a key was pressed in Visual mode with a text-object prefix pending while
\* the cursor is on an empty line
C2_EmptyLineTextObject ==
    /\ ~app.panicked
    /\ app.diff_view_mode = "Visual"
    /\ app.pending_key = Some("i")
    /\ InBounds(content_lines(app), app.cursor_pos.row)
    /\ At(content_lines(app), app.cursor_pos.row) = <<>>

\* C3: whenever the diff-view mode is Normal, Visual or VisualLine, the
\* cursor row is a valid index into the flattened buffer of the selected
\* file.
C3_CursorRowValid ==
    (~app.panicked /\ app.diff_view_mode # "Scroll")
        => app.cursor_pos.row < Len(content_lines(app))

RECURSIVE after_escapes(_, _)
\* the App after k consecutive Esc key events, each after a redraw
after_escapes(a, k) ==
    IF k = 0 THEN a
    ELSE after_escapes(on_key(draw(a), K("Esc"), Env(a.diff_state, "ok", "success")), k - 1)

\* C10: from every reachable state whose mode is Normal, Visual or
\* VisualLine, some finite number of consecutive Esc presses brings the mode
\* to Scroll.
C10_EscapeReachesScroll ==
    (Running /\ app.diff_view_mode # "Scroll")
        => \E k \in 1..MaxEsc : after_escapes(app, k).diff_view_mode = "Scroll"

\* the mode is not Scroll while the flattened buffer of the selection is empty
C10_ModalOnEmptyBuffer ==
    /\ Running
    /\ app.diff_view_mode # "Scroll"
    /\ Len(content_lines(app)) = 0

\* ------------------------------------------------------------------------
\* Cursor motions over a fixed buffer
\* ------------------------------------------------------------------------
\* the App after the keys that focus the diff view and enter Normal mode
MotionStart ==
    LET e == Env(DiffM, "ok", "success")
        press(a, c) == on_key(draw(a), K(c), e)
    IN press(press(AppNew(DiffM), "i"), "i")

\* the cursor positions of one side of the selected file's buffer
InRange(a, side) ==
    LET lines == project(Unwrap(selected_file(a)).hunks, side)
    IN UNION { { CursorPos(r, c, side) : c \in 0..(Max(Len(At(lines, r)), 1) - 1) } :
               r \in 0..(Len(lines) - 1) }

InitMotion ==
    /\ \E side \in DiffSide : \E pos \in InRange(MotionStart, side) :
          app = [MotionStart EXCEPT !.cursor_pos = pos, !.spawned = <<>>]
    /\ workers = started(MotionStart)
    /\ chan = [id |-> UnwrapOr(MotionStart.bg_highlight_rx, 0), queue |-> <<>>]
    /\ hist = {}
    /\ hl = Idle
    /\ ev = Idle

\* the motion keys, the digits of a count prefix and the keys that switch
\* between Normal, Visual and VisualLine
MotionKeys ==
    { K(c) : c \in {"h", "l", "j", "k", "w", "b", "e", "0", "$", "g", "G", "v", "V"} }
    \cup { K(c) : c \in { d \in DigitChars : DigitVal(d) <= MaxCount } }
MotionEnvs == { Env(DiffM, "ok", "success") }

NextMotion == KeyPress(MotionKeys, MotionEnvs)
SpecMotion == InitMotion /\ [][NextMotion]_vars

\* C1: over a fixed non-empty buffer, after every motion key in Normal,
\* Visual or VisualLine mode (with any count prefix) the cursor row is in
\* [0, buffer_len) and the cursor column is in [0, max(line_length, 1)).
C1_CursorInRange ==
    /\ ~app.panicked
    /\ app.diff_view_mode \in CursorModes
    /\ app.cursor_pos.row < Len(content_lines(app))
    /\ app.cursor_pos.col < Max(Len(At(content_lines(app), app.cursor_pos.row)), 1)

\* a motion moved the cursor off a longer line onto the blank line of the
\* buffer while a selection is open
C1_ClampedOntoShortLine ==
    /\ app.diff_view_mode = "Visual"
    /\ IsSome(app.visual_anchor)
    /\ Unwrap(app.visual_anchor).col > 0
    /\ app.cursor_pos.row # Unwrap(app.visual_anchor).row
    /\ Len(At(content_lines(app), app.cursor_pos.row)) = 0
    /\ app.cursor_pos.col = 0

\* ------------------------------------------------------------------------
\* Background highlighting across file selections and refreshes
\* ------------------------------------------------------------------------
BgDiffs == {DiffA, DiffA2, DiffDir}
BgKeys == {K("j"), K("k")}
BgEnvs == {Env(d, "ok", "success") : d \in BgDiffs}

InitBg == InitApp(BgDiffs)
NextBg == KeyPress(BgKeys, BgEnvs) \/ FsChange(BgEnvs) \/ Tick \/ WorkerStep
SpecBg == InitBg /\ [][NextBg]_vars

\* the highlight cache is a precomputed (background) result
precomputed(a) == IsSome(a.highlight_cache) /\ IsNone(Unwrap(a.highlight_cache).incremental)

\* the colors are what highlight_all_lines yields for file f of the loaded diff
computed_from(f, path, left, right) ==
    /\ f.path = path
    /\ worker_result(file_data_of(f)) = Some([path |-> path, left |-> left, right |-> right])

\* C4: after a diff refresh no result of a worker spawned for an earlier
\* refresh is inserted into bg_highlights or installed as the highlight
\* cache: every entry of bg_highlights and the highlight cache were computed
\* from the file contents of the currently loaded diff, and only the worker
\* of the current refresh can still deliver.
C4_CurrentEpochOnly ==
    LET files == { app.diff_state[i] : i \in 1..Len(app.diff_state) }
        fresh(c) ==
            \E f \in files :
                IF IsNone(c.incremental)
                THEN computed_from(f, c.file_path, c.left_colors, c.right_colors)
                ELSE /\ f.path = c.file_path
                     /\ Unwrap(c.incremental).left_lines = highlight_lines(f.hunks, "Left")
                     /\ Unwrap(c.incremental).right_lines = highlight_lines(f.hunks, "Right")
                     /\ Unwrap(c.incremental).hunk_starts = hunk_starts(f)
    IN /\ \A p \in DOMAIN app.bg_highlights :
             \E f \in files :
                 computed_from(f, p, app.bg_highlights[p].left, app.bg_highlights[p].right)
       /\ IsSome(app.highlight_cache) => fresh(Unwrap(app.highlight_cache))
       /\ \A i \in 1..Len(workers) :
             (app.bg_highlight_rx = Some(workers[i].tx) /\ chan.id = workers[i].tx)
                 => workers[i].file_data = file_data_list(app.diff_state)

\* after a refresh a result of the new worker has been inserted while a
\* worker of the earlier refresh is still running
C4_OldWorkerStillRunning ==
    /\ app.epoch > 1
    /\ DOMAIN app.bg_highlights # {}
    /\ \E i \in 1..Len(workers) : workers[i].tx # chan.id

\* C9 as stated: once an on-demand cache was created for a file in this
\* refresh epoch, a background result is never installed as the highlight
\* cache for that file, also not after another file was selected in between.
C9_LateResultDiscarded ==
    precomputed(app) => Unwrap(app.highlight_cache).file_path \notin hist

\* C9: while the on-demand cache of the selected file is the current cache, a
\* background result that arrives for that file is not installed in its
\* place; it is kept in bg_highlights (from where it is installed the next
\* time the cache is initialised for that file).
C9_OnDemandKeptWhileCurrent ==
    LET kept(at, path) ==
            /\ on_demand(at)
            /\ Unwrap(at.highlight_cache).file_path = path
            /\ (path \in DOMAIN app.bg_highlights \/ \E i \in 1..Len(Received) : Received[i].path = path)
                   => path \in DOMAIN at.bg_highlights
        selected(f, path) == IsSome(f) /\ Unwrap(f).path = path
    IN (on_demand(app) /\ selected(selected_file(app), Unwrap(app.highlight_cache).file_path))
           => kept(AtEvent, Unwrap(app.highlight_cache).file_path)

\* the background result of the selected file has arrived while its
\* on-demand cache is the current cache
C9_LateResultArrived ==
    /\ on_demand(app)
    /\ Unwrap(app.highlight_cache).file_path \in DOMAIN app.bg_highlights
    /\ IsSome(selected_file(app))
    /\ Unwrap(selected_file(app)).path = Unwrap(app.highlight_cache).file_path

\* ------------------------------------------------------------------------
\* The highlighter on its own: one file, created, extended, highlighted whole
\* ------------------------------------------------------------------------
\* rows: a line that first-line sniffing recognises, a line that opens a
\* quoted string on the left side, one that opens it on the right side
HlRows == { Row(Some(<<"#">>), Some(<<"#">>), "Context"),
            Row(Some(<<"'">>), Some(<<"a">>), "Deleted"),
            Row(Some(<<"a">>), Some(<<"'">>), "Added") }

\* a path whose extension names a grammar, and one without a known extension
HlPaths == { <<"h.rs">>, <<"run">> }

RECURSIVE split_hunks(_, _, _)
\* the hunks of a row sequence cut after the positions in cuts
split_hunks(rows, cuts, from) ==
    LET next == { c \in cuts : c >= from }
        upto == IF next = {} THEN Len(rows) ELSE CHOOSE c \in next : \A d \in next : c <= d
    IN IF from > Len(rows) THEN <<>>
       ELSE <<Hunk(HDR, SubSeq(rows, from, upto))>> \o split_hunks(rows, cuts, upto + 1)

HlFiles ==
    UNION { { FileDiff(p, split_hunks(rows, cuts, 1), FALSE) :
                p \in HlPaths, rows \in [1..n -> HlRows], cuts \in SUBSET (1..(n - 1)) } :
            n \in 1..MaxHlRows }

hl_lines(side) == highlight_lines(hl.file.hunks, side)

InitHl ==
    /\ app = [AppNew(DiffEmpty) EXCEPT !.spawned = <<>>]
    /\ workers = <<>>
    /\ chan = [id |-> 0, queue |-> <<>>]
    /\ hist = {}
    /\ ev = Idle
    /\ \E f \in HlFiles :
          hl = [pc |-> "input", file |-> f, cache |-> None, before |-> None, up_to |-> 0,
                all |-> None]

\* ensure_file_highlight's on-demand branch: create_cache for the file
HlCreate ==
    /\ hl.pc = "input"
    /\ hl' = [hl EXCEPT !.pc = "created",
                        !.cache = create_cache(hl.file.path, hl_lines("Left"), hl_lines("Right"),
                                               hunk_starts(hl.file))]
    /\ UNCHANGED <<app, workers, chan, hist, ev>>

\* extend_cache with any bound; the cache before the call and the bound are kept
HlExtend ==
    /\ hl.pc \in {"created", "extended"}
    /\ IsSome(hl.cache)
    /\ \E k \in 0..(Len(hl_lines("Left")) + 1) :
          hl' = [hl EXCEPT !.pc = "extended", !.before = hl.cache, !.up_to = k,
                           !.cache = Some(extend_cache(Unwrap(hl.cache), k))]
    /\ UNCHANGED <<app, workers, chan, hist, ev>>

\* the worker thread's highlight_all_lines for the same file
HlAll ==
    /\ hl.pc # "input"
    /\ IsNone(hl.all)
    /\ hl' = [hl EXCEPT !.all = Some(highlight_all_lines(hl.file.path, hl_lines("Left"),
                                                         hl_lines("Right"),
                                                         hunk_starts(hl.file)))]
    /\ UNCHANGED <<app, workers, chan, hist, ev>>

NextHl == HlCreate \/ HlExtend \/ HlAll
SpecHl == InitHl /\ [][NextHl]_vars

\* C6: for every file with a matched grammar, by extension or by first-line
\* sniffing, highlight_all_lines yields the same colors, row for row on both
\* sides, as create_cache followed by extend_cache calls up to the full line
\* count.
C6_SameColors ==
    (IsSome(hl.cache) /\ IsSome(hl.all)
        /\ Unwrap(hl.cache).processed_up_to = Len(hl_lines("Left")))
    => Unwrap(hl.all) = Some([left |-> Unwrap(hl.cache).left_colors,
                              right |-> Unwrap(hl.cache).right_colors])

\* a cache of a file matched only by first-line sniffing is fully extended
\* and the whole-file result is there
C6_SniffedFileDone ==
    /\ IsSome(hl.cache) /\ IsSome(hl.all)
    /\ IsNone(find_syntax_by_extension(hl.file.path))
    /\ Len(hl.file.hunks) > 1
    /\ Unwrap(hl.cache).processed_up_to = Len(hl_lines("Left"))

\* C7: during extend_cache, at every recorded hunk start the tokenizer state
\* of both sides is reset to the start-of-file state, for every cache that
\* create_cache returned.
C7_ResetAtHunkStart ==
    LET reset(inc, syntax) ==
            /\ inc.left_parse_state = ParseStateNew(syntax)
            /\ inc.left_highlight_state = HighlightStateNew
            /\ inc.right_parse_state = ParseStateNew(syntax)
            /\ inc.right_highlight_state = HighlightStateNew
    IN (IsSome(hl.cache) /\ (Unwrap(hl.cache).processed_up_to - 1) \in hunk_starts(hl.file))
       => reset(Unwrap(Unwrap(hl.cache).incremental),
                Unwrap(find_syntax(hl.file.path, first_content(hl_lines("Left"),
                                                               hunk_starts(hl.file)))))

\* extend_cache has just processed the header row of a second hunk
C7_AtSecondHunk ==
    /\ IsSome(hl.cache)
    /\ Unwrap(hl.cache).processed_up_to > 1
    /\ (Unwrap(hl.cache).processed_up_to - 1) \in hunk_starts(hl.file)

\* C8: extend_cache is monotonic and idempotent: with a bound at or below
\* processed_up_to nothing changes; with a larger bound rows are only
\* appended, up to min(bound, line count), and the colors of the rows
\* already processed stay as they were; processed_up_to never decreases and
\* equals the length of left_colors and of right_colors.
C8_MonotonicIdempotent ==
    LET holds(b, c, k, n) ==
            /\ k <= b.processed_up_to => c = b
            /\ c.processed_up_to = Max(b.processed_up_to, Min(k, n))
            /\ c.processed_up_to >= b.processed_up_to
            /\ Len(c.left_colors) = c.processed_up_to
            /\ Len(c.right_colors) = c.processed_up_to
            /\ SubSeq(c.left_colors, 1, b.processed_up_to) = b.left_colors
            /\ SubSeq(c.right_colors, 1, b.processed_up_to) = b.right_colors
            /\ extend_cache(c, k) = c
    IN hl.pc = "extended"
       => holds(Unwrap(hl.before), Unwrap(hl.cache), hl.up_to, Len(hl_lines("Left")))

\* a call with a larger bound appended rows to a cache that already held some
C8_Appended ==
    /\ hl.pc = "extended"
    /\ Unwrap(hl.before).processed_up_to > 0
    /\ hl.up_to > Unwrap(hl.before).processed_up_to
    /\ Unwrap(hl.cache).processed_up_to > Unwrap(hl.before).processed_up_to

\* ------------------------------------------------------------------------
\* Event handler (src/event.rs): the input-polling thread and the main
\* thread around the launch of an external editor (src/main.rs:105-141)
\* ------------------------------------------------------------------------
\* ev.poller and ev.main are the two threads' positions, ev.paused the
\* AtomicBool, ev.acked and ev.lock the Mutex<bool> of pause_ack and its
\* owner, ev.queue the mpsc channel of events
EventHandlerNew ==
    [poller |-> "check", main |-> "next", paused |-> FALSE, acked |-> FALSE,
     lock |-> "free", queue |-> <<>>]

\* a pause that leaves the ack flag as the previous pause left it
pause_reset_skipped(e) == [e EXCEPT !.main = "pause_store"]

\* EventHandler::pause, the reset of the ack flag under the lock
pause_reset(e) == [e EXCEPT !.acked = FALSE, !.main = "pause_store"]

\* EventHandler::pause, self.paused.store(true)
pause_store(e) == [e EXCEPT !.paused = TRUE, !.main = "pause_lock"]

\* EventHandler::pause, lock.lock() before the wait loop and on wake-up
pause_lock(e) == [e EXCEPT !.lock = "main", !.main = "pause_wait"]

\* EventHandler::pause, one test of `while !*acked`: return, or cvar.wait;
\* both release the lock
pause_wait(e) ==
    [e EXCEPT !.lock = "free", !.main = IF e.acked THEN "suspended" ELSE "pause_blocked"]

\* a drain that leaves the channel as it is
drain_skipped(e) == [e EXCEPT !.main = "resume"]

\* EventHandler::drain
drain(e) == [e EXCEPT !.queue = <<>>, !.main = "resume"]

\* EventHandler::resume
resume(e) == [e EXCEPT !.paused = FALSE, !.main = "next"]

\* the polling thread sends an event: the send fails once the receiver is gone
send(e, event) ==
    IF e.main = "exited" THEN [e EXCEPT !.poller = "returned"]
    ELSE [e EXCEPT !.queue = Append(@, event), !.poller = "check"]

EvStep(e2) == ev' = e2 /\ UNCHANGED <<app, workers, chan, hist, hl>>

\* if paused_flag.load(SeqCst)
PollerCheck ==
    /\ ev.poller = "check"
    /\ EvStep([ev EXCEPT !.poller = IF ev.paused THEN "ack_lock" ELSE "poll"])

\* lock.lock()
PollerAckLock ==
    /\ ev.poller = "ack_lock" /\ ev.lock = "free"
    /\ EvStep([ev EXCEPT !.lock = "poller", !.poller = "ack_set"])

\* *acked = true; cvar.notify_one()
PollerAckSet ==
    /\ ev.poller = "ack_set"
    /\ EvStep([ev EXCEPT !.acked = TRUE, !.poller = "ack_unlock"])

\* the guard is dropped at the end of the block
PollerAckUnlock ==
    /\ ev.poller = "ack_unlock"
    /\ EvStep([ev EXCEPT !.lock = "free", !.poller = "spin"])

\* while paused_flag.load(SeqCst) { sleep }; continue
PollerSpinExit ==
    /\ ev.poller = "spin" /\ ~ev.paused
    /\ EvStep([ev EXCEPT !.poller = "check"])

\* event::poll(tick_rate): input is ready, or the tick rate elapses
PollerPoll ==
    /\ ev.poller = "poll"
    /\ \E ready \in BOOLEAN :
          EvStep([ev EXCEPT !.poller = IF ready THEN "read" ELSE "send_Tick"])

\* event::read(): a key, a resize, or an event that is dropped
PollerRead ==
    /\ ev.poller = "read"
    /\ \E next \in {"send_Key", "send_Resize", "check"} : EvStep([ev EXCEPT !.poller = next])

\* event_tx.send(..)
PollerSend ==
    /\ \E event \in {"Key", "Resize", "Tick"} :
          /\ ev.poller = "send_" \o event
          /\ ev.main = "exited" \/ Len(ev.queue) < MaxQueue
          /\ EvStep(send(ev, event))

\* the file watcher sends Event::FsChange through a clone of the sender
WatcherSend ==
    /\ ev.main # "exited" /\ Len(ev.queue) < MaxQueue
    /\ EvStep([ev EXCEPT !.queue = Append(@, "FsChange")])

\* events.next() and the main loop's handling of the event: a key may quit
\* the application or ask for the editor
MainNext ==
    /\ ev.main = "next" /\ Len(ev.queue) > 0
    /\ \E then \in (IF Head(ev.queue) = "Key" THEN {"next", "pause_reset", "exited"}
                    ELSE {"next"}) :
          EvStep([ev EXCEPT !.queue = Tail(@), !.main = then])

MainPauseReset == ev.main = "pause_reset" /\ ev.lock = "free" /\ EvStep(pause_reset(ev))
MainPauseStore == ev.main = "pause_store" /\ EvStep(pause_store(ev))
MainPauseLock == ev.main = "pause_lock" /\ ev.lock = "free" /\ EvStep(pause_lock(ev))
MainPauseWait == ev.main = "pause_wait" /\ EvStep(pause_wait(ev))
\* cvar.wait returns (notified or spuriously) once the lock can be taken again
MainPauseWake == ev.main = "pause_blocked" /\ ev.lock = "free" /\ EvStep(pause_lock(ev))
\* tui::restore, the editor runs, tui::enter, stale terminal input is flushed
MainEditor == ev.main = "suspended" /\ EvStep([ev EXCEPT !.main = "drain"])
MainDrain == ev.main = "drain" /\ EvStep(drain(ev))
MainResume == ev.main = "resume" /\ EvStep(resume(ev))

InitEv ==
    /\ app = [AppNew(DiffEmpty) EXCEPT !.spawned = <<>>]
    /\ workers = <<>>
    /\ chan = [id |-> 0, queue |-> <<>>]
    /\ hist = {}
    /\ hl = Idle
    /\ ev = EventHandlerNew

NextEv ==
    \/ PollerCheck \/ PollerAckLock \/ PollerAckSet \/ PollerAckUnlock \/ PollerSpinExit
    \/ PollerPoll \/ PollerRead \/ PollerSend \/ WatcherSend
    \/ MainNext \/ MainPauseReset \/ MainPauseStore \/ MainPauseLock \/ MainPauseWait
    \/ MainPauseWake \/ MainEditor \/ MainDrain \/ MainResume
SpecEv == InitEv /\ [][NextEv]_vars

\* C5: from the return of pause() until resume() the polling thread has
\* observed the pause and is in its spin-wait, outside event::poll and
\* event::read; the main thread never suspends the terminal while the poller
\* can still poll.
C5_PollerStoppedWhilePaused ==
    ev.main \in {"suspended", "drain", "resume"} => (ev.poller = "spin" /\ ev.paused)

\* pause() has returned after the poller sent an event it was still reading
\* when the pause was requested
C5_PausedAfterLateEvent ==
    /\ ev.main = "suspended"
    /\ ev.poller = "spin"
    /\ Len(ev.queue) > 0

\* ------------------------------------------------------------------------
\* Search over the diff view and the file tree
\* ------------------------------------------------------------------------
SearchDiffs == {DiffDir}
SearchKeys == { K(c) : c \in {"/", "a", "Enter", "Esc", "n", "N", "j", "i"} }
SearchEnvs == {Env(d, "ok", "success") : d \in SearchDiffs}

InitSearch == InitApp(SearchDiffs)
NextSearch == KeyPress(SearchKeys, SearchEnvs) \/ FsChange(SearchEnvs)
SpecSearch == InitSearch /\ [][NextSearch]_vars

\* the matches a search of the selected file for the query yields
fresh_matches(a, query) == search_diff_view(reset_matches(a), query).search.matches

\* C11: in every reachable state with an active diff-view query, the match
\* list equals the result of searching the currently selected file for that
\* query (also after file-tree navigation and after a diff refresh).
C11_MatchesOfSelectedFile ==
    (Running /\ ~app.search.active /\ app.search.origin = "DiffView"
        /\ IsSome(app.search.query))
    => app.search.matches = fresh_matches(app, Unwrap(app.search.query))

\* a diff-view query is active, with matches, on the second file of the tree
C11_QueryOnOtherFile ==
    /\ Running /\ ~app.search.active /\ app.search.origin = "DiffView"
    /\ IsSome(app.search.query)
    /\ app.search.matches # <<>>
    /\ IsSome(selected_file(app))
    /\ Unwrap(selected_file(app)).path = FileY.path

\* C12: once a query was confirmed with Enter the pattern is never forgotten:
\* whenever no query is active, n re-executes the most recently confirmed
\* query (the last entry of the history), also after Esc and after a later
\* prompt that was cancelled or confirmed empty.
C12_PatternRemembered ==
    (Running /\ ~app.search.active /\ IsNone(app.search.query)
        /\ app.search.history # <<>>)
    => jump_to_match(app, TRUE).search.query
         = Some(At(app.search.history, Len(app.search.history) - 1))

\* a query was confirmed, and a later prompt was closed without a query
C12_PromptCancelledAfterConfirm ==
    /\ Running /\ ~app.search.active /\ IsNone(app.search.query)
    /\ app.search.history # <<>>
    /\ IsNone(app.search.last_query)

\* jumping between the matches of a confirmed query, in the file tree and
\* in the diff view
JumpKeys == { K(c) : c \in {"/", "a", "Enter", "n", "N", "i"} }
NextJump == KeyPress(JumpKeys, SearchEnvs)
SpecJump == InitSearch /\ [][NextJump]_vars

\* n forward (or backward) jumps in a row
RECURSIVE jumps(_, _, _)
jumps(a, forward, n) == IF n = 0 THEN a ELSE jumps(jump_to_match(a, forward), forward, n - 1)

\* C13: over a fixed list of N >= 1 matches, N forward jumps from the current
\* match index i return to i, a forward jump followed by a backward jump
\* returns to i, and the current match index is always absent or in [0, N).
C13_CyclicNavigation ==
    LET N == Len(app.search.matches)
        i == app.search.current_match_idx
    IN /\ IsSome(i) => Unwrap(i) \in 0..(N - 1)
       /\ (Running /\ IsSome(app.search.query) /\ N >= 1 /\ IsSome(i))
          => /\ jumps(app, TRUE, N).search.current_match_idx = i
             /\ jumps(app, TRUE, N).search.matches = app.search.matches
             /\ jump_to_match(jump_to_match(app, TRUE), FALSE).search.current_match_idx = i
             /\ jumps(app, FALSE, N).search.current_match_idx = i

\* the current match is the last of at least two, so the next jump wraps
C13_AtLastMatch ==
    /\ Running /\ IsSome(app.search.query)
    /\ Len(app.search.matches) >= 2
    /\ app.search.current_match_idx = Some(Len(app.search.matches) - 1)

\* ------------------------------------------------------------------------
\* The search prompt and its history
\* ------------------------------------------------------------------------
MaxPromptInput == 1
MaxPromptHistory == 2

PromptKeys == { K(c) : c \in {"/", "a", "Enter", "Esc", "Backspace", "Up", "Down"} }
                 \cup {Ctrl("p"), Ctrl("n")}
PromptEnvs == {Env(DiffA, "ok", "success")}

PromptKey ==
    LET handle(at) ==
            \E key \in PromptKeys, env \in PromptEnvs :
                LET done(a2) == /\ Len(a2.search.input) <= MaxPromptInput
                                /\ Len(a2.search.history) <= MaxPromptHistory
                                /\ Commit(at, a2)
                IN done(on_key(at, key, env))
    IN Running /\ handle(AtEvent)

InitPrompt == InitApp({DiffA})
NextPrompt == PromptKey
SpecPrompt == InitPrompt /\ [][NextPrompt]_vars

\* k presses of one key of the prompt
RECURSIVE presses(_, _, _)
presses(a, key, k) ==
    IF k = 0 THEN a
    ELSE presses(handle_key(a, key, Env(DiffA, "ok", "success")), key, k - 1)

\* C14: while the prompt is open, browsing the history up k times and then
\* down k times (any k >= 1, any history length) restores the input that was
\* being typed before browsing started and leaves the history unchanged.
C14_HistoryRoundTrip ==
    (Running /\ app.search.active /\ IsNone(app.search.history_idx))
    => \A k \in 1..(MaxPromptHistory + 1) :
         \A up \in {K("Up"), Ctrl("p")}, down \in {K("Down"), Ctrl("n")} :
           LET back(b) == /\ b.search.input = app.search.input
                          /\ b.search.history = app.search.history
                          /\ b.search.active
           IN back(presses(presses(app, up, k), down, k))

\* typed text is in the prompt again after browsing a history of two entries
C14_BackFromBrowsing ==
    /\ Running /\ app.search.active /\ IsNone(app.search.history_idx)
    /\ Len(app.search.history) >= 2
    /\ app.search.input # <<>>
    /\ app.search.saved_input = app.search.input

\* ------------------------------------------------------------------------
\* Refresh against a configured base ref
\* ------------------------------------------------------------------------
RefKeys == { K(c) : c \in {"l", "j", "Enter", "b", "Esc"} }
\* the configured base resolves or not; the diff against HEAD is DiffA2
RefEnvs == { [Env(DiffA, "ok", "success") EXCEPT !.ref_ok = ok, !.head_diff = DiffA2]
                : ok \in BOOLEAN }

InitRef == InitApp({DiffA2})
NextRef == KeyPress(RefKeys, RefEnvs) \/ FsChange(RefEnvs)
SpecRef == InitRef /\ [][NextRef]_vars

\* C15: when the configured base ref does not resolve, refresh_diff falls
\* back to the default base (diff_base_ref None, the diff against HEAD loaded)
\* and returns with a status message that reports the invalid ref.
C15_FallbackReported ==
    (Running /\ IsSome(app.diff_base_ref))
    => \A env \in {e \in RefEnvs : ~e.ref_ok} :
         LET reported(r) ==
                 /\ IsNone(r.diff_base_ref)
                 /\ r.diff_state = env.head_diff
                 /\ r.status_message = Status("Invalid ref, fell back to HEAD", 0, 0)
         IN reported(refresh_diff(app, env))

\* a base ref is configured and the diff against it is shown
C15_BaseRefConfigured ==
    /\ Running /\ IsSome(app.diff_base_ref)
    /\ app.diff_state = DiffA

\* the App with the anchor and the live cursor exchanged
swapped(a) == [a EXCEPT !.cursor_pos = Unwrap(a.visual_anchor),
                        !.visual_anchor = Some(a.cursor_pos)]

MaxRaw == 4

\* SideLine
SideLine(n, c) == [line_no |-> n, content |-> c]
\* RawHunkLine
RawHunkLine(o, old, new, c) == [origin |-> o, old_lineno |-> old, new_lineno |-> new, content |-> c]

\* the left side of a raw line
old_side(l) == SideLine(UnwrapOr(l.old_lineno, 0), l.content)
\* the right side of a raw line
new_side(l) == SideLine(UnwrapOr(l.new_lineno, 0), l.content)

RECURSIVE run_end(_, _, _)
\* the inner loops `while i < lines.len() && lines[i].origin == o { i += 1 }`
run_end(lines, i, o) ==
    IF i < Len(lines) /\ At(lines, i).origin = o THEN run_end(lines, i + 1, o) ELSE i

\* a replacement run cut to the shorter of its two sides
paired_rows_shorter(dels, adds) ==
    [j \in 1..Min(Len(dels), Len(adds)) |->
        Row(Some(old_side(dels[j])), Some(new_side(adds[j])), "Deleted")]

\* every paired row typed after its right side
pair_type_by_right(has_left, has_right) ==
    IF has_right THEN Some("Added") ELSE IF has_left THEN Some("Deleted") ELSE None

\* the match on (left.is_some(), right.is_some()); None stands for `continue`
pair_type(has_left, has_right) ==
    CASE has_left /\ has_right -> Some("Deleted")
      [] has_left /\ ~has_right -> Some("Deleted")
      [] ~has_left /\ has_right -> Some("Added")
      [] OTHER -> None

\* the loop `for j in 0..max_len` over a deletion run and the addition run after it
paired_rows(dels, adds) ==
    LET max_len == Max(Len(dels), Len(adds))
        left(j) == IF j < Len(dels) THEN Some(old_side(At(dels, j))) ELSE None
        right(j) == IF j < Len(adds) THEN Some(new_side(At(adds, j))) ELSE None
        line_type(j) == pair_type(IsSome(left(j)), IsSome(right(j)))
        all == [j \in 1..max_len |->
                   [left |-> left(j - 1), right |-> right(j - 1), line_type |-> line_type(j - 1)]]
        pushed == SelectSeq(all, LAMBDA r : IsSome(r.line_type))
    IN [j \in 1..Len(pushed) |->
           Row(pushed[j].left, pushed[j].right, Unwrap(pushed[j].line_type))]

RECURSIVE align_from(_, _)
\* the outer loop of align_hunk_lines from index i
align_from(lines, i) ==
    IF i >= Len(lines) THEN <<>>
    ELSE LET l == At(lines, i)
             del_end == run_end(lines, i, "-")
             add_end == run_end(lines, del_end, "+")
         IN CASE l.origin = " " ->
                   <<Row(Some(old_side(l)), Some(new_side(l)), "Context")>>
                       \o align_from(lines, i + 1)
              [] l.origin = "-" ->
                   paired_rows(Slice(lines, i, del_end), Slice(lines, del_end, add_end))
                       \o align_from(lines, add_end)
              [] l.origin = "+" ->
                   <<Row(None, Some(new_side(l)), "Added")>> \o align_from(lines, i + 1)
              [] OTHER -> align_from(lines, i + 1)

\* align_hunk_lines
align_hunk_lines(lines) == align_from(lines, 0)

\* the origins of a hunk's lines: context, deletion, addition, and the
\* end-of-file markers the aligner skips
Origins == {" ", "-", "+", "="}
RawContents == {<<"a">>, <<"b">>}

InitAlign ==
    /\ app = [AppNew(DiffEmpty) EXCEPT !.spawned = <<>>]
    /\ workers = <<>>
    /\ chan = [id |-> 0, queue |-> <<>>]
    /\ hist = {}
    /\ ev = Idle
    /\ hl = [pc |-> "raw", lines |-> <<>>, rows |-> <<>>]

\* parse_diff's loop over the lines of a hunk: raw_lines.push(...); line i
\* has number i on the sides it exists on
Collect ==
    /\ hl.pc = "raw"
    /\ Len(hl.lines) < MaxRaw
    /\ \E o \in Origins, c \in RawContents :
          LET n == Len(hl.lines) + 1
          IN hl' = [hl EXCEPT !.lines =
                       Append(@, RawHunkLine(o,
                                             IF o \in {" ", "-"} THEN Some(n) ELSE None,
                                             IF o \in {" ", "+"} THEN Some(n) ELSE None,
                                             c))]
    /\ UNCHANGED <<app, workers, chan, hist, ev>>

\* parse_diff after the loop: the collected lines are aligned into rows
Align ==
    /\ hl.pc = "raw"
    /\ hl' = [hl EXCEPT !.pc = "aligned", !.rows = align_hunk_lines(hl.lines)]
    /\ UNCHANGED <<app, workers, chan, hist, ev>>

NextAlign == Collect \/ Align
SpecAlign == InitAlign /\ [][NextAlign]_vars

\* C17: every row of the aligner has at least one side populated, a row of
\* kind Added never has a populated left side, and a row with both sides
\* populated has kind Deleted or Context.
C17_RowSides ==
    hl.pc = "aligned" =>
        \A j \in 1..Len(hl.rows) :
            LET row == hl.rows[j]
            IN /\ IsSome(row.left) \/ IsSome(row.right)
               /\ row.line_type = "Added" => IsNone(row.left)
               /\ (IsSome(row.left) /\ IsSome(row.right))
                      => row.line_type \in {"Deleted", "Context"}

\* a replacement run with more additions than deletions was aligned
C17_PairedAndAddedRows ==
    /\ hl.pc = "aligned"
    /\ \E j \in 1..Len(hl.rows) :
          /\ IsSome(hl.rows[j].left) /\ IsSome(hl.rows[j].right)
          /\ hl.rows[j].line_type = "Deleted"
    /\ \E j \in 1..Len(hl.rows) : hl.rows[j].line_type = "Added"

\* the rows emitted for the first i raw lines
rows_before(lines, i) == align_hunk_lines(Slice(lines, 0, i))

\* C18: a maximal run of d >= 1 deletions immediately followed by a maximal
\* run of a >= 0 additions yields exactly max(d, a) rows, row j pairing the
\* j-th deletion (left) with the j-th addition (right) and the rows beyond the
\* shorter run holding only the longer run's side; an addition run that no
\* deletion run precedes yields one right-only row per addition.
C18_RunsPairedByIndex ==
    hl.pc = "aligned" =>
        LET lines == hl.lines
            rows == hl.rows
            origin(i) == IF InBounds(lines, i) THEN At(lines, i).origin ELSE "none"
            \* the checks for the deletion run that starts at p
            replacement(p, d, a) ==
                LET off == Len(rows_before(lines, p))
                IN /\ Len(rows_before(lines, p + d + a)) = off + Max(d, a)
                   /\ Len(rows) >= off + Max(d, a)
                   /\ \A j \in 0..(Max(d, a) - 1) :
                        /\ At(rows, off + j).left =
                              IF j < d THEN Some(old_side(At(lines, p + j))) ELSE None
                        /\ At(rows, off + j).right =
                              IF j < a THEN Some(new_side(At(lines, p + d + j))) ELSE None
            \* the checks for the addition at p of a run no deletion precedes
            addition(p) ==
                LET off == Len(rows_before(lines, p))
                IN /\ Len(rows_before(lines, p + 1)) = off + 1
                   /\ Len(rows) >= off + 1
                   /\ At(rows, off) = Row(None, Some(new_side(At(lines, p))), "Added")
            \* the start of the maximal run of additions that holds p
            run_start(p) == CHOOSE q \in 0..p :
                               /\ \A k \in q..p : origin(k) = "+"
                               /\ origin(q - 1) # "+"
        IN \A p \in 0..(Len(lines) - 1) :
             /\ (origin(p) = "-" /\ origin(p - 1) # "-")
                  => replacement(p, run_end(lines, p, "-") - p,
                                 run_end(lines, run_end(lines, p, "-"), "+")
                                     - run_end(lines, p, "-"))
             /\ (origin(p) = "+" /\ origin(run_start(p) - 1) # "-") => addition(p)

\* two deletions were replaced by one addition, and a lone addition follows
\* a context line
C18_UnevenReplacement ==
    /\ hl.pc = "aligned"
    /\ Len(hl.lines) = 4
    /\ [i \in 1..4 |-> hl.lines[i].origin] \in {<<"-", "-", "+", " ">>, <<"-", "+", "+", "+">>}

\* ------------------------------------------------------------------------
\* The count prefix (src/app.rs:1436-1455, 1545-1547)
\* ------------------------------------------------------------------------
CountedMotions == {"h", "l", "j", "k", "w", "b", "e"}
\* the keys of Normal mode that are not digits and not the Ctrl-w prefix
NonDigitKeys ==
    { K(c) : c \in CountedMotions \cup {"$", "g", "G", "y", "v", "V", "i", "a", "/", "n", "N",
                                        "Esc", "Enter", "Tab", "?", "q", "r", "x"} }
    \cup { Ctrl(c) : c \in {"d", "u", "h", "l"} }

\* Normal mode waits for a command: no prompt, no dialog, no pending key
awaits_command(a) ==
    /\ ~a.panicked /\ ~a.should_quit
    /\ a.view_mode = "Git" /\ a.focused_pane = "DiffView" /\ a.diff_view_mode = "Normal"
    /\ ~a.show_help /\ IsNone(a.error_dialog) /\ IsNone(a.branch_action_menu)
    /\ ~a.search.active /\ IsNone(a.pending_key)

\* the cursor after the motion key c pressed n times without a count
repeated(a, c, n) == presses([a EXCEPT !.count = None], K(c), n).cursor_pos

\* no count is pending after any non-digit key other than the Ctrl-w prefix,
\* and a motion with a count leaves none for the next motion
count_reset(a) ==
    \A key \in NonDigitKeys :
        IsNone(handle_key(a, key, Env(DiffM, "ok", "success")).count)

\* C19 as stated: a count typed before h, l, j, k, w, b or e in Normal mode
\* makes the cursor end where count presses of that key without a count leave
\* it, and is then reset; after any non-digit key other than the Ctrl-w
\* prefix no count remains pending.
C19_CountRepeatsMotion ==
    awaits_command(app) =>
        /\ count_reset(app)
        /\ \A c \in CountedMotions :
              handle_key(app, K(c), Env(DiffM, "ok", "success")).cursor_pos
                  = repeated(app, c, UnwrapOr(app.count, 1))

\* C19 as the code has it: for h, l, w, b and e the cursor ends where count
\* presses leave it; for j and k the row ends where count presses leave it
\* and the column is clamped once, on the destination line; the count is then
\* reset, and after any non-digit key other than the Ctrl-w prefix no count
\* remains pending.
C19_CountConsumedOnce ==
    awaits_command(app) =>
        /\ count_reset(app)
        /\ \A c \in CountedMotions :
              LET counted == handle_key(app, K(c), Env(DiffM, "ok", "success")).cursor_pos
                  stepped == repeated(app, c, UnwrapOr(app.count, 1))
                  landed == clamp_col(SetRow(app, stepped.row), content_lines(app)).cursor_pos
              IN IF c \in {"j", "k"} THEN counted = landed ELSE counted = stepped

\* a count of at least two is pending with the cursor past the first column
C19_CountPending ==
    /\ awaits_command(app)
    /\ IsSome(app.count) /\ Unwrap(app.count) >= 2
    /\ app.cursor_pos.col > 0
    /\ app.cursor_pos.row + 2 < Len(content_lines(app))

\* ------------------------------------------------------------------------
\* The memo of content_lines
\* ------------------------------------------------------------------------
MemoDiffs == {DiffDir, DiffA, DiffA2}
MemoKeys == { K(c) : c \in {"j", "i", "l", "h", "Esc"} } \cup {Ctrl("w")}
MemoEnvs == {Env(d, "ok", "success") : d \in MemoDiffs}

InitMemo == InitApp(MemoDiffs)
NextMemo == KeyPress(MemoKeys, MemoEnvs) \/ FsChange(MemoEnvs)
SpecMemo == InitMemo /\ [][NextMemo]_vars

\* the selected file's hunks projected anew onto the cursor side
fresh_projection(a) ==
    IF IsNone(selected_file(a)) THEN <<>>
    ELSE project(Unwrap(selected_file(a)).hunks, a.cursor_pos.side)

\* C20: content_lines() always equals a fresh projection of the selected
\* file's current hunks onto the current cursor side; the memo is never stale
\* after a file-selection change, a side change or a diff refresh.
C20_MemoNeverStale ==
    Running => content_lines(app) = fresh_projection(app)

\* a memo is kept whose lines are not those of the current file and side
C20_MemoOfOtherKey ==
    /\ Running
    /\ IsSome(app.content_lines_cache)
    /\ IsSome(selected_file(app))
    /\ Unwrap(app.content_lines_cache).lines # fresh_projection(app)

\* ------------------------------------------------------------------------
\* Text objects in the Visual modes (src/app.rs:1674-1698, 2060-2133)
\* ------------------------------------------------------------------------
DelimKeys == {"\"", "'", "(", ")", "{", "}"}
open_of(c) == CASE c \in {"(", ")"} -> "(" [] c \in {"{", "}"} -> "{" [] OTHER -> c
close_of(c) == CASE c \in {"(", ")"} -> ")" [] c \in {"{", "}"} -> "}" [] OTHER -> c

\* the cursor line of the buffer, empty when the row does not exist
cursor_line(a) ==
    IF InBounds(content_lines(a), a.cursor_pos.row)
    THEN At(content_lines(a), a.cursor_pos.row) ELSE <<>>

\* the opening delimiter is at or before column col and the closing one after it
delims_found(chars, col, c) ==
    /\ \E i \in 0..(Len(chars) - 1) : i <= col /\ At(chars, i) = open_of(c)
    /\ \E j \in 0..(Len(chars) - 1) : j > col /\ At(chars, j) = close_of(c)

\* a Visual mode waits for the key after i or a
awaits_text_object(a) ==
    /\ ~a.panicked /\ ~a.should_quit
    /\ a.view_mode = "Git" /\ a.focused_pane = "DiffView"
    /\ a.diff_view_mode \in {"Visual", "VisualLine"}
    /\ ~a.show_help /\ IsNone(a.error_dialog) /\ IsNone(a.branch_action_menu)
    /\ ~a.search.active
    /\ IsSome(a.pending_key) /\ Unwrap(a.pending_key) \in {"i", "a"}

\* C21: a text-object command in Visual or VisualLine mode on a cursor line
\* where the opening delimiter is not found at or before the cursor, or the
\* closing one not after it, is a no-op: cursor, anchor and mode are
\* unchanged; this includes empty cursor lines.
C21_UnmatchedIsNoOp ==
    awaits_text_object(app) =>
        \A c \in DelimKeys :
            LET same(r) == /\ ~r.panicked
                           /\ r.cursor_pos = app.cursor_pos
                           /\ r.visual_anchor = app.visual_anchor
                           /\ r.diff_view_mode = app.diff_view_mode
            IN ~delims_found(cursor_line(app), app.cursor_pos.col, c)
                   => same(handle_key(app, K(c), Env(DiffA, "ok", "success")))

\* a text-object key is awaited on a line that has no delimiter and is not empty
C21_PendingOnPlainLine ==
    /\ awaits_text_object(app)
    /\ cursor_line(app) # <<>>
    /\ \A c \in DelimKeys : ~delims_found(cursor_line(app), app.cursor_pos.col, c)

\* t.rs: a parenthesised word, an empty pair of parentheses and a line
\* without any
FileT == FileDiff(<<"t.rs">>,
            << Hunk(HDR, << Row(Some(<<"(", "a", "b", ")">>), Some(<<"(", "a", "b", ")">>), "Context"),
                            Row(Some(<<"a", "(", ")">>), None, "Deleted"),
                            Row(Some(<<"a">>), Some(<<"a">>), "Context") >>) >>, FALSE)
DiffT == << FileT >>

ObjKeys == { K(c) : c \in {"i", "a", "j", "l", "v", "(", "y"} }
ObjEnvs == {Env(DiffT, "ok", "success")}
InitObj == InitApp({DiffT})
NextObj == KeyPress(ObjKeys, ObjEnvs)
SpecObj == InitObj /\ [][NextObj]_vars

\* the clipboard after the text-object key c and then y
object_yanked(a, c) ==
    handle_key(handle_key(a, K(c), Env(DiffT, "ok", "success")),
               K("y"), Env(DiffT, "ok", "success")).clipboard

\* the clipboard after a yank of text t: an empty text is not copied
clipboard_after(a, t) == IF t = <<>> THEN a.clipboard ELSE Some(t)

\* C22: with both delimiters on the cursor line at columns op < cp, an inner
\* text object followed by yank copies exactly the characters strictly
\* between op and cp (the empty text when cp = op + 1, never a delimiter), and
\* an around text object followed by yank copies the characters op..cp.
C22_ObjectYankExact ==
    (awaits_text_object(app) /\ app.diff_view_mode = "Visual") =>
        \A c \in DelimKeys :
            LET chars == cursor_line(app)
                col == app.cursor_pos.col
                op == SetMax({i \in 0..(Len(chars) - 1) : i <= col /\ At(chars, i) = open_of(c)})
                cp == SetMin({j \in 0..(Len(chars) - 1) : j > col /\ At(chars, j) = close_of(c)})
            IN delims_found(chars, col, c) =>
                  IF Unwrap(app.pending_key) = "i"
                  THEN object_yanked(app, c) = clipboard_after(app, Slice(chars, op + 1, cp))
                  ELSE object_yanked(app, c) = clipboard_after(app, Slice(chars, op, cp + 1))

\* an inner text object is awaited with the cursor on the opening parenthesis
\* of an empty pair
C22_InnerOfEmptyPair ==
    /\ awaits_text_object(app) /\ app.diff_view_mode = "Visual"
    /\ Unwrap(app.pending_key) = "i"
    /\ delims_found(cursor_line(app), app.cursor_pos.col, "(")
    /\ At(cursor_line(app), app.cursor_pos.col) = "("
    /\ At(cursor_line(app), app.cursor_pos.col + 1) = ")"

\* ------------------------------------------------------------------------
\* Yanks with a failing clipboard (src/app.rs:1821-1841)
\* ------------------------------------------------------------------------
ClipAnswers == {"ok", "set_text_fails", "unavailable"}
ClipKeys == { K(c) : c \in {"j", "l", "w", "v", "V", "y", "$"} }
ClipEnvs == {Env(DiffM, clip, "success") : clip \in ClipAnswers}
InitClip == InitMotion
NextClip == KeyPress(ClipKeys, ClipEnvs)
SpecClip == InitClip /\ [][NextClip]_vars

\* the keys that end a yank: y in the Visual modes, the motion after y in Normal
YankEndKeys == {"y", "w", "e", "b", "$", "0"}
\* the App with nothing copied and nothing reported yet
unreported(a) == [a EXCEPT !.clipboard = None, !.status_message = None]
\* the key makes the App hand a text to the clipboard
copies(a, c) ==
    IsSome(handle_key(unreported(a), K(c), Env(DiffM, "ok", "success")).clipboard)

\* C23: a yank whose clipboard operation fails is never fatal: it sets a
\* status message that reports the clipboard problem and leaves the cursor
\* unchanged, and a Visual-mode yank still returns to Normal mode with the
\* anchor cleared.
C23_ClipboardFailureReported ==
    (Running /\ app.diff_view_mode \in CursorModes /\ ~app.search.active) =>
        \A c \in YankEndKeys, clip \in ClipAnswers \ {"ok"} :
            LET failed(r) ==
                    /\ ~r.panicked /\ ~r.should_quit
                    /\ r.status_message =
                           Status(IF clip = "unavailable" THEN "Clipboard unavailable"
                                  ELSE "Clipboard error", 0, 0)
                    /\ IsNone(r.clipboard)
                    /\ r.cursor_pos = app.cursor_pos
                    /\ r.diff_view_mode = "Normal"
                    /\ IsNone(r.visual_anchor)
            IN copies(app, c)
                   => failed(handle_key(unreported(app), K(c), Env(DiffM, clip, "success")))

\* a yank failed at the clipboard and the mode is Normal
C23_ClipboardFailed ==
    /\ Running /\ app.diff_view_mode = "Normal" /\ IsNone(app.visual_anchor)
    /\ IsSome(app.status_message)
    /\ Unwrap(app.status_message).msg \in {"Clipboard error", "Clipboard unavailable"}
    /\ IsNone(app.pending_key)

\* ------------------------------------------------------------------------
\* The external-editor sequence of the main loop (src/main.rs:105-141)
\* ------------------------------------------------------------------------
\* Beside the fields of the event handler, ev holds: sessions, the number of
\* editor sessions begun; status, how the last editor exited; refreshes and
\* successes, the refresh_diff calls made after an editor session and the
\* sessions that exited successfully; held, the session count when the poller
\* read the event it is about to send; stale, whether handle_key received a
\* key read before the end of an editor session that has since been resumed.
\* Every queued event carries the session count at which it was read.
MaxSessions == 2

Event(kind, read_at) == [kind |-> kind, read_at |-> read_at]

EditorInit ==
    [poller |-> "check", main |-> "next", paused |-> FALSE, acked |-> FALSE,
     lock |-> "free", queue |-> <<>>, sessions |-> 0, status |-> "none",
     refreshes |-> 0, successes |-> 0, held |-> 0, stale |-> FALSE, dropped |-> FALSE]

\* event::read() in the polling thread
EdPollerRead ==
    /\ ev.poller = "read"
    /\ \E next \in {"send_Key", "send_Resize", "check"} :
          EvStep([ev EXCEPT !.poller = next, !.held = ev.sessions])

\* event_tx.send(..) in the polling thread
EdPollerSend ==
    /\ \E kind \in {"Key", "Resize", "Tick"} :
          /\ ev.poller = "send_" \o kind
          /\ ev.main = "exited" \/ Len(ev.queue) < MaxQueue
          /\ EvStep(send(ev, Event(kind, IF kind = "Tick" THEN ev.sessions ELSE ev.held)))

\* the file watcher's send
EdWatcherSend ==
    /\ ev.main # "exited" /\ Len(ev.queue) < MaxQueue
    /\ EvStep([ev EXCEPT !.queue = Append(@, Event("FsChange", ev.sessions))])

\* events.next() and the Event::Key arm up to `if open_editor`: handle_key
\* receives the key; it may quit or ask for the editor
EdMainNext ==
    /\ ev.main = "next" /\ Len(ev.queue) > 0
    /\ LET event == Head(ev.queue)
           received(e) == IF event.kind = "Key" /\ event.read_at < ev.sessions
                          THEN [e EXCEPT !.stale = TRUE] ELSE e
       IN \E then \in (IF event.kind = "Key"
                       THEN {"next", "exited"}
                                \cup (IF ev.sessions < MaxSessions THEN {"pause_reset"} ELSE {})
                       ELSE {"next"}) :
             EvStep(received([ev EXCEPT !.queue = Tail(@), !.main = then]))

\* tui::restore, Command::status, tui::enter and the flush of the terminal
EdMainEditor ==
    /\ ev.main = "suspended"
    /\ \E status \in {"success", "failure", "error"} :
          EvStep([ev EXCEPT !.main = "drain", !.sessions = @ + 1, !.status = status,
                            !.successes = IF status = "success" THEN @ + 1 ELSE @])

\* events.drain()
EdMainDrain ==
    /\ ev.main = "drain"
    /\ LET keys == SelectSeq(ev.queue, LAMBDA x : x.kind = "Key")
       IN EvStep([drain(ev) EXCEPT !.dropped = @ \/ keys # <<>>])

\* events.resume()
EdMainResume == ev.main = "resume" /\ EvStep([resume(ev) EXCEPT !.main = "status"])

\* match status: refresh_diff after a successful exit, a status message otherwise
EdMainStatus ==
    /\ ev.main = "status"
    /\ EvStep([ev EXCEPT !.main = "next",
                         !.refreshes = IF ev.status = "success" THEN @ + 1 ELSE @])

InitEditor ==
    /\ app = [AppNew(DiffEmpty) EXCEPT !.spawned = <<>>]
    /\ workers = <<>>
    /\ chan = [id |-> 0, queue |-> <<>>]
    /\ hist = {}
    /\ hl = Idle
    /\ ev = EditorInit

NextEditor ==
    \/ PollerCheck \/ PollerAckLock \/ PollerAckSet \/ PollerAckUnlock \/ PollerSpinExit
    \/ PollerPoll \/ EdPollerRead \/ EdPollerSend \/ EdWatcherSend
    \/ EdMainNext \/ MainPauseReset \/ MainPauseStore \/ MainPauseLock \/ MainPauseWait
    \/ MainPauseWake \/ EdMainEditor \/ EdMainDrain \/ EdMainResume \/ EdMainStatus
SpecEditor == InitEditor /\ [][NextEditor]_vars

\* C24: the main loop pauses the poller before it restores the terminal and
\* launches the editor, drains the channel before it resumes the poller, and
\* refreshes the diff exactly when the editor exited successfully; no key read
\* before or during the editor session reaches handle_key after the resume.
C24_EditorSequence ==
    /\ ev.main = "suspended" => (ev.paused /\ ev.acked /\ ev.poller = "spin")
    /\ ev.main \in {"drain", "resume"} => (ev.paused /\ ev.poller = "spin")
    /\ ev.main = "resume" => \A i \in 1..Len(ev.queue) : ev.queue[i].kind # "Key"
    /\ ev.main \in {"next", "exited"} \cup {"pause_reset", "pause_store", "pause_lock",
                                            "pause_wait", "pause_blocked", "suspended"}
          => ev.refreshes = ev.successes
    /\ ev.main = "status" => ev.refreshes + (IF ev.status = "success" THEN 1 ELSE 0) = ev.successes
    /\ ~ev.stale

\* after a successful editor session, during which a key waiting in the
\* channel was dropped, handle_key has a later key in the channel
C24_KeyAfterSession ==
    /\ ev.main = "next"
    /\ ev.sessions >= 1 /\ ev.status = "success" /\ ev.refreshes >= 1
    /\ ev.dropped
    /\ Len(ev.queue) > 0 /\ Head(ev.queue).kind = "Key"

\* ------------------------------------------------------------------------
\* A one-line replacement, aligned and yanked (src/git/diff.rs:197-278,
\* src/app.rs:1550-1558)
\* ------------------------------------------------------------------------
OldLine == <<"o", "l", "d", " ", "l", "i", "n", "e">>
NewLine == <<"n", "e", "w", " ", "l", "i", "n", "e">>

\* the hunk's raw lines: one deletion followed by one addition
RawPair == << RawHunkLine("-", Some(1), None, OldLine), RawHunkLine("+", None, Some(1), NewLine) >>

\* the rows of a hunk as the engine reads them: the content of each side
rows_read(rows) ==
    [j \in 1..Len(rows) |->
        Row(IF IsSome(rows[j].left) THEN Some(Unwrap(rows[j].left).content) ELSE None,
            IF IsSome(rows[j].right) THEN Some(Unwrap(rows[j].right).content) ELSE None,
            rows[j].line_type)]

FilePair == FileDiff(<<"p.rs">>, << Hunk(HDR, rows_read(align_hunk_lines(RawPair))) >>, FALSE)
DiffPair == << FilePair >>

PairKeys == { K(c) : c \in {"i", "j", "k", "l", "y"} } \cup {Ctrl("w")}
PairEnvs == {Env(DiffPair, "ok", "success")}
InitPair == InitApp({DiffPair})
NextPair == KeyPress(PairKeys, PairEnvs)
SpecPair == InitPair /\ [][NextPair]_vars

\* the clipboard after y y
line_yanked(a, env) == handle_key(handle_key(a, K("y"), env), K("y"), env).clipboard

\* C25: a hunk of one deletion 'old line' followed by one addition 'new line'
\* aligns to exactly one row, left 'old line', right 'new line', kind Deleted;
\* with the cursor at row 1, col 0 on the Right side in Normal mode, y y
\* copies exactly 'new line'.
C25_PairYankLine ==
    /\ IsSome(selected_file(app)) =>
          Unwrap(selected_file(app)).hunks
              = << Hunk(HDR, << Row(Some(OldLine), Some(NewLine), "Deleted") >>) >>
    /\ (awaits_command(app) /\ IsNone(app.count)
            /\ app.cursor_pos = CursorPos(1, 0, "Right")) =>
          line_yanked(app, Env(DiffPair, "ok", "success")) = Some(NewLine)

\* y y was pressed at row 1, col 0 of the Right side
C25_RightLineYanked ==
    /\ awaits_command(app)
    /\ app.cursor_pos = CursorPos(1, 0, "Right")
    /\ app.clipboard = Some(NewLine)

\* ------------------------------------------------------------------------
\* The anchor of a visual selection (src/app.rs:1512-1519, 1781-1798)
\* ------------------------------------------------------------------------
\* a key of the visual modes is awaited and no text-object prefix is pending
awaits_visual_key(a) ==
    /\ ~a.panicked /\ ~a.should_quit
    /\ a.view_mode = "Git" /\ a.focused_pane = "DiffView"
    /\ a.diff_view_mode \in {"Visual", "VisualLine"}
    /\ ~a.show_help /\ IsNone(a.error_dialog) /\ IsNone(a.branch_action_menu)
    /\ ~a.search.active /\ IsNone(a.pending_key)

\* the anchor is the same after the key, if the mode is still a visual one
anchor_kept(a, key) ==
    LET a2 == handle_key(a, key, Env(DiffM, "ok", "success"))
    IN a2.diff_view_mode \in {"Visual", "VisualLine"} => a2.visual_anchor = a.visual_anchor

\* C26: while the mode is Visual or VisualLine the anchor captured on entry
\* from Normal stays fixed: motion keys, n/N jumps and the toggle between
\* Visual and VisualLine leave it as it is.
C26_AnchorFixed ==
    awaits_visual_key(app) =>
        \A key \in (MotionKeys \ {K("i"), K("a")}) \cup {K("n"), K("N")} : anchor_kept(app, key)

\* the same, the toggle between Visual and VisualLine left out
C26_AnchorFixedByMotions ==
    awaits_visual_key(app) =>
        \A key \in (MotionKeys \ {K("i"), K("a"), K("v"), K("V")}) \cup {K("n"), K("N")} :
            anchor_kept(app, key)

\* in Visual mode the cursor has left the anchor
C26_CursorAwayFromAnchor ==
    /\ awaits_visual_key(app) /\ app.diff_view_mode = "Visual"
    /\ IsSome(app.visual_anchor) /\ Unwrap(app.visual_anchor) # app.cursor_pos

\* ------------------------------------------------------------------------
\* Entering Normal mode from Scroll mode (src/app.rs:1369-1380)
\* ------------------------------------------------------------------------
\* a key of Scroll mode is awaited in the diff view
awaits_scroll_key(a) ==
    /\ ~a.panicked /\ ~a.should_quit
    /\ a.view_mode = "Git" /\ a.focused_pane = "DiffView" /\ a.diff_view_mode = "Scroll"
    /\ ~a.show_help /\ IsNone(a.error_dialog) /\ IsNone(a.branch_action_menu)
    /\ ~a.search.active /\ IsNone(a.pending_key)

\* a short file and a longer one, the file tree searched by name
DiffEntry == << FileA, FileM >>
EntryKeys == { K(c) : c \in {"/", "a", "Enter", "n", "j", "i", "Esc"} }
EntryEnvs == {Env(DiffEntry, "ok", "success")}
InitEntry == InitApp({DiffEntry})
NextEntry == KeyPress(EntryKeys, EntryEnvs)
SpecEntry == InitEntry /\ [][NextEntry]_vars

\* the App after i
normal_entered(a) == handle_key(a, K("i"), Env(a.diff_state, "ok", "success"))

\* C27: i in Scroll mode on a non-empty buffer switches to Normal mode with
\* the cursor at (diff_scroll_y, 0, Left), a valid row of the selected file's
\* buffer, also after a file-tree search jump changed the selection; on an
\* empty buffer the mode stays Scroll.
C27_NormalEntryInBuffer ==
    awaits_scroll_key(app) =>
        IF content_lines(app) # <<>>
        THEN /\ normal_entered(app).diff_view_mode = "Normal"
             /\ normal_entered(app).cursor_pos = CursorPos(app.diff_scroll_y, 0, "Left")
             /\ app.diff_scroll_y < Len(content_lines(normal_entered(app)))
        ELSE normal_entered(app).diff_view_mode = "Scroll"

\* the diff view shows a file with fewer lines than the scroll offset
C27_ScrolledPastBuffer ==
    /\ awaits_scroll_key(app)
    /\ content_lines(app) # <<>>
    /\ app.diff_scroll_y >= Len(content_lines(app))

\* ------------------------------------------------------------------------
\* The side switch Ctrl-w h / Ctrl-w l (src/app.rs:1386-1404)
\* ------------------------------------------------------------------------
SideKeys == { K(c) : c \in {"h", "l", "j", "k", "$", "2"} } \cup {Ctrl("w")}
NextSide == KeyPress(SideKeys, MotionEnvs)
SpecSide == InitMotion /\ [][NextSide]_vars

\* the App after Ctrl-w and then c
side_switched(a, c) ==
    handle_key(handle_key(a, Ctrl("w"), Env(DiffM, "ok", "success")),
               K(c), Env(DiffM, "ok", "success"))

\* C28: after Ctrl-w h or Ctrl-w l in Normal mode the cursor is on the Left
\* or Right side respectively, the row is unchanged, no count is pending, and
\* the column is within the line shown on the new side.
C28_SideSwitchClamped ==
    awaits_command(app) =>
        \A c \in {"h", "l"} :
            /\ side_switched(app, c).cursor_pos.side = (IF c = "h" THEN "Left" ELSE "Right")
            /\ side_switched(app, c).cursor_pos.row = app.cursor_pos.row
            /\ IsNone(side_switched(app, c).count)
            /\ side_switched(app, c).cursor_pos.col
                  < Max(Len(cursor_line(side_switched(app, c))), 1)

\* the same without the bound on the column
C28_SideSwitchKeepsRow ==
    awaits_command(app) =>
        \A c \in {"h", "l"} :
            /\ side_switched(app, c).cursor_pos.side = (IF c = "h" THEN "Left" ELSE "Right")
            /\ side_switched(app, c).cursor_pos.row = app.cursor_pos.row
            /\ side_switched(app, c).cursor_pos.col = app.cursor_pos.col
            /\ IsNone(side_switched(app, c).count)

\* with a count pending, the cursor is past the end of the line shown on the
\* other side
C28_OtherSideShorter ==
    /\ awaits_command(app) /\ IsSome(app.count)
    /\ app.cursor_pos.side = "Right"
    /\ app.cursor_pos.col >= Max(Len(cursor_line(side_switched(app, "h"))), 1)

\* ------------------------------------------------------------------------
\* g g with a count (src/app.rs:1411-1429, 1450-1451, 1495-1497, 1681-1693)
\* ------------------------------------------------------------------------
\* the cursor after g g
top_jumped(a) ==
    handle_key(handle_key(a, K("g"), Env(DiffM, "ok", "success")),
               K("g"), Env(DiffM, "ok", "success")).cursor_pos

\* C29: in Normal and Visual modes {count} g g moves the cursor to row
\* min(count - 1, buffer_len - 1), column 0, and g g without a count to row 0.
C29_CountedTopJump ==
    (awaits_command(app) \/ awaits_visual_key(app)) =>
        /\ top_jumped(app).col = 0
        /\ top_jumped(app).row =
              (IF IsSome(app.count)
               THEN Min(Unwrap(app.count) - 1, Len(content_lines(app)) - 1)
               ELSE 0)

\* g g, with a count or without, moves the cursor to row 0, column 0
C29_TopJumpIgnoresCount ==
    (awaits_command(app) \/ awaits_visual_key(app)) =>
        /\ top_jumped(app).col = 0
        /\ top_jumped(app).row = 0

\* a count of at least two is pending in Visual mode, below the first row
C29_CountBeforeTopJump ==
    /\ awaits_visual_key(app) /\ app.diff_view_mode = "Visual"
    /\ IsSome(app.count) /\ Unwrap(app.count) >= 2
    /\ app.cursor_pos.row > 0

\* ------------------------------------------------------------------------
\* y y with a count (src/app.rs:1405-1410, 1509-1511, 1549-1558)
\* ------------------------------------------------------------------------
YankLineKeys == { K(c) : c \in {"j", "k", "y", "2", "3"} }
NextYankLine == KeyPress(YankLineKeys, MotionEnvs)
SpecYankLine == InitMotion /\ [][NextYankLine]_vars

\* the lines from the cursor row on, n of them or fewer if the buffer ends
lines_from_cursor(a, n) ==
    JoinLines(Slice(content_lines(a), a.cursor_pos.row,
                    Min(a.cursor_pos.row + n, Len(content_lines(a)))))

\* C30: in Normal mode {n} y y copies the n consecutive lines starting at the
\* cursor row (fewer if the buffer ends first), joined by newlines, and y y
\* without a count copies exactly the cursor line.
C30_CountedLineYank ==
    awaits_command(app) =>
        line_yanked(app, Env(DiffM, "ok", "success"))
            = clipboard_after(app, lines_from_cursor(app, UnwrapOr(app.count, 1)))

\* y y, with a count or without, copies the cursor line
C30_LineYankIgnoresCount ==
    awaits_command(app) =>
        line_yanked(app, Env(DiffM, "ok", "success"))
            = clipboard_after(app, lines_from_cursor(app, 1))

\* a count of at least two is pending above the last line of the buffer
C30_CountBeforeLineYank ==
    /\ awaits_command(app)
    /\ IsSome(app.count) /\ Unwrap(app.count) >= 2
    /\ app.cursor_pos.row + 1 < Len(content_lines(app))

\* ------------------------------------------------------------------------
\* G with a count (src/app.rs:1498-1508, 1761-1769)
\* ------------------------------------------------------------------------
\* the cursor after G
bottom_jumped(a) == handle_key(a, K("G"), Env(DiffM, "ok", "success")).cursor_pos

\* C31: in Normal and Visual modes {count} G moves the cursor to row
\* min(count - 1, buffer_len - 1) for every count >= 1, G without a count to
\* the last row; the column becomes 0.
C31_CountedBottomJump ==
    (awaits_command(app) \/ awaits_visual_key(app)) =>
        /\ bottom_jumped(app).col = 0
        /\ bottom_jumped(app).row =
              (IF IsSome(app.count)
               THEN Min(Unwrap(app.count) - 1, Len(content_lines(app)) - 1)
               ELSE Len(content_lines(app)) - 1)

\* the same for every count but 1
C31_BottomJumpFromTwo ==
    ((awaits_command(app) \/ awaits_visual_key(app)) /\ app.count # Some(1)) =>
        /\ bottom_jumped(app).col = 0
        /\ bottom_jumped(app).row =
              (IF IsSome(app.count)
               THEN Min(Unwrap(app.count) - 1, Len(content_lines(app)) - 1)
               ELSE Len(content_lines(app)) - 1)

\* the count 1 is pending in Normal mode
C31_CountOnePending ==
    /\ awaits_command(app) /\ app.count = Some(1)
    /\ Len(content_lines(app)) > 1

\* ------------------------------------------------------------------------
\* Ctrl+c (src/app.rs:912-940)
\* ------------------------------------------------------------------------
QuitKeys == { K(c) : c \in {"?", "/", "a", "i", "v", "2", "Esc"} } \cup {Ctrl("c")}
QuitEnvs == {Env(DiffA, "ok", "success")}
InitQuit == InitApp({DiffA})
NextQuit == KeyPress(QuitKeys, QuitEnvs)
SpecQuit == InitQuit /\ [][NextQuit]_vars

\* the quit flag after Ctrl+c
interrupted(a) == handle_key(a, Ctrl("c"), Env(DiffA, "ok", "success")).should_quit

\* C32: Ctrl+c quits in every state: with the help overlay, an error dialog
\* or the branch action menu shown, with the search prompt active, in any
\* view and any diff-view mode.
C32_CtrlCAlwaysQuits == ~app.panicked => interrupted(app)

\* Ctrl+c quits when no overlay, dialog, menu or prompt takes the key
C32_CtrlCQuitsAtPanes ==
    (/\ ~app.panicked /\ ~app.show_help /\ IsNone(app.error_dialog)
     /\ IsNone(app.branch_action_menu) /\ ~app.search.active) => interrupted(app)

\* the help overlay is shown
C32_HelpShown == ~app.panicked /\ ~app.should_quit /\ app.show_help

\* ------------------------------------------------------------------------
\* Termination of the highlight workers (src/app.rs:426-429, 463-478)
\* ------------------------------------------------------------------------
\* three files of one row each: two Rust files and one for which no grammar
\* is found (no result is sent for it)
FileP == FileDiff(<<"y.rs">>, << Hunk(HDR, << Row(Some(<<"b">>), None, "Deleted") >>) >>, FALSE)
FileQ == FileDiff(<<"h.rs">>, << Hunk(HDR, << Row(None, Some(<<"a">>), "Added") >>) >>, FALSE)
FileN == FileDiff(<<"n">>, << Hunk(HDR, << Row(None, Some(<<"a">>), "Added") >>) >>, FALSE)
WorkerDiffs == { <<FileQ, FileN, FileP>>, <<FileP, FileQ>> }
WorkerEnvs == {Env(d, "ok", "success") : d \in WorkerDiffs}
InitWorker == InitApp(WorkerDiffs)
WorkerKeys == {K("j")}
NextWorker == KeyPress(WorkerKeys, WorkerEnvs) \/ FsChange(WorkerEnvs) \/ Tick \/ WorkerStep
\* the worker threads keep being scheduled
SpecWorker == InitWorker /\ [][NextWorker]_vars /\ WF_vars(WorkerStep)

\* the receiver of the worker's channel was dropped
dropped(w) == ~(app.bg_highlight_rx = Some(w.tx) /\ chan.id = w.tx)

\* a send is the worker's next step
sends_next(w) == IsSome(worker_result(At(w.file_data, w.next)))

\* the worker is still running after the step, one file further
advanced(w) ==
    \E j \in 1..Len(workers') : workers'[j].tx = w.tx /\ workers'[j].next # w.next

\* a worker whose receiver was dropped does not outlive a send attempt, and
\* a step of the workers adds to the channel only the result of a worker
\* whose receiver is held
WorkerSendFails ==
    /\ \A i \in 1..Len(workers) :
          (dropped(workers[i]) /\ sends_next(workers[i])) => ~advanced(workers[i])
    /\ (app' = app /\ chan'.queue # chan.queue) =>
          \E i \in 1..Len(workers) :
              /\ ~dropped(workers[i]) /\ sends_next(workers[i])
              /\ chan'.queue = Append(chan.queue,
                                      Unwrap(worker_result(At(workers[i].file_data,
                                                              workers[i].next))))

\* no worker is given a file twice: it is at a file of its list
WorkerWithinFiles ==
    \A i \in 1..Len(workers) : workers[i].next < Len(workers[i].file_data)

\* C33: after a refresh dropped the receiver of the previous epoch, the
\* worker of that epoch exits at its first send attempt and no send of it
\* succeeds; a worker whose receiver is never dropped processes each file
\* once; every worker terminates.
C33_WorkersTerminate ==
    /\ [][WorkerSendFails]_vars
    /\ [](WorkerWithinFiles)
    /\ <>[](workers = <<>>)

\* a worker whose receiver was dropped is about to send
C33_SendAfterDrop ==
    \E i \in 1..Len(workers) : dropped(workers[i]) /\ sends_next(workers[i])

\* ------------------------------------------------------------------------
\* The query history (src/app.rs:217-225, 2149-2160)
\* ------------------------------------------------------------------------
\* no entry is empty and no two adjacent entries are equal
HistoryWellFormed ==
    /\ \A i \in 1..Len(app.search.history) : app.search.history[i] # <<>>
    /\ \A i \in 1..(Len(app.search.history) - 1) :
          app.search.history[i] # app.search.history[i + 1]

\* the history changes only when a non-empty input is confirmed with Enter
\* (the prompt closes and the input becomes the query), by one entry added
\* at the end
HistoryAppendedOnConfirm ==
    app'.search.history # app.search.history =>
        /\ app.search.active /\ ~app'.search.active
        /\ app.search.input # <<>>
        /\ app'.search.query = Some(app.search.input)
        /\ app'.search.history = Append(app.search.history, app.search.input)

\* C34: after any sequence of search confirmations the history contains no
\* empty string and no two adjacent equal entries, its entries are in
\* confirmation order, and an entry is appended only on Enter with a
\* non-empty input.
C34_HistoryAppendOnly == [](HistoryWellFormed) /\ [][HistoryAppendedOnConfirm]_vars

\* two queries were confirmed; the current query is the last entry
C34_TwoConfirmed ==
    /\ Running /\ ~app.search.active
    /\ Len(app.search.history) >= 2
    /\ app.search.query = Some(app.search.history[Len(app.search.history)])

\* ------------------------------------------------------------------------
\* The row coordinates of the buffer, the highlighter and the search
\* (src/app.rs:373-388, 1845-1875, 2199-2247)
\* ------------------------------------------------------------------------
\* the hunks and the rows of the file parsed
MaxHunks == 2
MaxRows == 3

RowKinds == { Row(Some(<<"a">>), Some(<<"b", "a">>), "Context"),
              Row(None, Some(<<"a">>), "Added"),
              Row(Some(<<"b">>), None, "Deleted") }
Headers == { HDR, <<"a">> }
Queries == { <<"a">>, <<"b">>, <<"@">> }

InitRows ==
    /\ app = [AppNew(DiffEmpty) EXCEPT !.spawned = <<>>]
    /\ workers = <<>>
    /\ chan = [id |-> 0, queue |-> <<>>]
    /\ hist = {}
    /\ ev = Idle
    /\ hl = [pc |-> "parse", hunks |-> <<>>]

\* parse_diff: a hunk begins
AddHunk ==
    /\ hl.pc = "parse" /\ Len(hl.hunks) < MaxHunks
    /\ \E h \in Headers : hl' = [hl EXCEPT !.hunks = Append(@, Hunk(h, <<>>))]
    /\ UNCHANGED <<app, workers, chan, hist, ev>>

\* parse_diff: a row of the last hunk, while the file has fewer than MaxRows
AddRow ==
    /\ hl.pc = "parse" /\ Len(hl.hunks) > 0
    /\ Len(highlight_lines(hl.hunks, "Left")) - Len(hl.hunks) < MaxRows
    /\ \E r \in RowKinds : hl' = [hl EXCEPT !.hunks[Len(hl.hunks)].rows = Append(@, r)]
    /\ UNCHANGED <<app, workers, chan, hist, ev>>

\* App::new on the diff of the one file parsed
OpenFile ==
    /\ hl.pc = "parse" /\ Len(hl.hunks) > 0
    /\ hl' = [hl EXCEPT !.pc = "open"]
    /\ app' = [AppNew(<< FileDiff(<<"a.rs">>, hl.hunks, FALSE) >>) EXCEPT !.spawned = <<>>]
    /\ UNCHANGED <<workers, chan, hist, ev>>

NextRows == AddHunk \/ AddRow \/ OpenFile
SpecRows == InitRows /\ [][NextRows]_vars

\* the index of the header of hunk k (counted from 0): one line for each
\* earlier header and row
header_index(hunks, k) ==
    LET before == { i \in 1..k : TRUE }
        RECURSIVE sum(_)
        sum(S) == IF S = {} THEN 0
                  ELSE LET i == CHOOSE x \in S : TRUE
                       IN 1 + Len(hunks[i].rows) + sum(S \ {i})
    IN sum(before)

\* the buffer of one side
buffer_of(a, side) == content_lines([a EXCEPT !.cursor_pos.side = side, !.content_lines_cache = None])

\* the match lies on a line of the buffer of its side and covers the query
match_in_buffer(a, m, query) ==
    /\ m.row < Len(buffer_of(a, m.side))
    /\ m.col_end <= Len(At(buffer_of(a, m.side), m.row))
    /\ to_lowercase(Slice(At(buffer_of(a, m.side), m.row), m.col_start, m.col_end)) = query

\* C35: for a file the flattened buffer of content_lines, the line lists
\* handed to the highlighter and the rows of the diff-view search matches
\* have one entry per hunk header followed by one per row: the lengths are
\* equal, hunk_starts are the header indices, and the row of every diff-line
\* match is an index of the buffer.
C35_RowCoordinatesCoincide ==
    hl.pc = "open" =>
        LET f == Unwrap(selected_file(app))
            n == header_index(f.hunks, Len(f.hunks))
        IN /\ \A side \in DiffSide : Len(buffer_of(app, side)) = n
           /\ Len(file_data_of(f).left_lines) = n
           /\ Len(file_data_of(f).right_lines) = n
           /\ file_data_of(f).hunk_starts
                  = { header_index(f.hunks, k) : k \in 0..(Len(f.hunks) - 1) }
           /\ \A q \in Queries :
                 \A i \in 1..Len(fresh_matches(app, q)) :
                     match_in_buffer(app, fresh_matches(app, q)[i], q)

\* the file has two hunks, the second after at least one row, and a query
\* matches below the second header
C35_MatchInSecondHunk ==
    /\ hl.pc = "open"
    /\ Len(hl.hunks) = 2 /\ Len(hl.hunks[1].rows) >= 1
    /\ \E i \in 1..Len(fresh_matches(app, <<"a">>)) :
          fresh_matches(app, <<"a">>)[i].row > header_index(hl.hunks, 1)

\* ------------------------------------------------------------------------
\* The anchor and the mode (src/app.rs:1512-1519, 1775-1815, 2098-2130)
\* ------------------------------------------------------------------------
AnchorKeys == { K(c) : c \in {"v", "V", "y", "Esc", "i", "w", "j", "l"} }
NextAnchor == KeyPress(AnchorKeys, MotionEnvs)
SpecAnchor == InitMotion /\ [][NextAnchor]_vars

\* C36: in every reachable state visual_anchor is present exactly when the
\* diff-view mode is Visual or VisualLine: entering either mode sets it, and
\* y, Esc and the exiting v/V toggle return to Normal with the anchor cleared.
C36_AnchorIffVisual ==
    ~app.panicked =>
        (IsSome(app.visual_anchor) <=> app.diff_view_mode \in {"Visual", "VisualLine"})

\* Normal mode was entered again by the yank of a selection of several lines
C36_BackInNormalAfterYank ==
    /\ awaits_command(app)
    /\ IsSome(app.clipboard)
    /\ \E i \in 1..Len(Unwrap(app.clipboard)) : Unwrap(app.clipboard)[i] = "\n"
    /\ IsNone(app.visual_anchor)

\* ------------------------------------------------------------------------
\* Keys in the modal diff view (src/app.rs:942-949, 1525-1530, 2341-2373)
\* ------------------------------------------------------------------------
\* the diff view is focused in Normal, Visual or VisualLine mode
modal_view(a) ==
    /\ ~a.panicked /\ ~a.should_quit
    /\ a.view_mode = "Git" /\ a.focused_pane = "DiffView"
    /\ a.diff_view_mode \in {"Normal", "Visual", "VisualLine"}

\* keys that act on panes, views, the quit flag or the selection elsewhere
PaneKeys ==
    { K(c) : c \in {"1", "2", "q", "?", "/", "n", "N", "r", "e", "Tab", "BackTab",
                    "j", "k", "i", "a", "Enter", "Esc", "v", "y"} }

\* the key leaves the pane, the view, the quit flag and the selection alone
pane_kept(a, key) ==
    LET a2 == handle_key(a, key, Env(DiffEntry, "ok", "success"))
    IN /\ a2.focused_pane = a.focused_pane
       /\ a2.view_mode = a.view_mode
       /\ a2.should_quit = a.should_quit
       /\ a2.selected_tree_idx = a.selected_tree_idx

\* C37: while the diff-view mode is Normal, Visual or VisualLine no key other
\* than Ctrl+c changes the focused pane, the active view, the quit flag or
\* which file is selected.
C37_ModalKeysStayInView ==
    modal_view(app) => \A key \in PaneKeys : pane_kept(app, key)

\* the same for every key but n and N
C37_ModalKeysButJumps ==
    modal_view(app) => \A key \in PaneKeys \ {K("n"), K("N")} : pane_kept(app, key)

\* Normal mode on a file other than the one the file-tree search matched
C37_TreeMatchElsewhere ==
    /\ modal_view(app) /\ ~app.search.active
    /\ \E i \in 1..Len(app.search.matches) :
          /\ app.search.matches[i].kind = "TreeEntry"
          /\ app.search.matches[i].idx # app.selected_tree_idx

\* ------------------------------------------------------------------------
\* The frame of a yank with a motion (src/app.rs:1405-1410, 1550-1639)
\* ------------------------------------------------------------------------
\* the App after y and then the motion key c
motion_yanked(a, c) ==
    handle_key(handle_key(a, K("y"), Env(DiffM, "ok", "success")),
               K(c), Env(DiffM, "ok", "success"))

YankViewKeys == { K(c) : c \in {"i", "j", "k", "w", "y", "2"} }
NextYankView == KeyPress(YankViewKeys, MotionEnvs) \/ FsChange(MotionEnvs)
SpecYankView == InitApp({DiffM}) /\ [][NextYankView]_vars

\* the cursor, the mode and the horizontal offset are as before the yank
view_kept(a, a2) ==
    /\ ~a2.panicked
    /\ a2.cursor_pos = a.cursor_pos
    /\ a2.diff_view_mode = a.diff_view_mode
    /\ a2.diff_scroll_x = a.diff_scroll_x

\* the cursor row is within the rows shown
cursor_shown(a) ==
    /\ a.cursor_pos.row >= a.diff_scroll_y
    /\ a.cursor_pos.row < a.diff_scroll_y + a.diff_view_height

\* C38 as stated: a yank with a motion in Normal mode (yy, yw, ye, yb, y$,
\* y0, with a count or without) leaves the cursor position, the mode and the
\* scroll offsets unchanged.
C38_YankKeepsView ==
    awaits_command(app) =>
        \A c \in YankEndKeys :
            /\ view_kept(app, motion_yanked(app, c))
            /\ motion_yanked(app, c).diff_scroll_y = app.diff_scroll_y

\* C38 as the code has it: the cursor position, the mode and the horizontal
\* offset are unchanged; the vertical offset is unchanged when the cursor row
\* is shown, and otherwise becomes the offset nearest to the old one that
\* shows the cursor row.
C38_YankScrollsToCursor ==
    awaits_command(app) =>
        \A c \in YankEndKeys :
            /\ view_kept(app, motion_yanked(app, c))
            /\ motion_yanked(app, c).diff_scroll_y =
                  (IF app.diff_view_height = 0 \/ cursor_shown(app) THEN app.diff_scroll_y
                   ELSE IF app.cursor_pos.row < app.diff_scroll_y THEN app.cursor_pos.row
                   ELSE app.cursor_pos.row - app.diff_view_height + 1)

\* a refresh has reset the vertical offset and the cursor row is not shown
C38_CursorNotShown ==
    /\ awaits_command(app)
    /\ app.diff_view_height > 0 /\ ~cursor_shown(app)
    /\ app.cursor_pos.row < Len(content_lines(app))

\* ------------------------------------------------------------------------
\* pause() and resume() called in any order (src/event.rs:33-47, 82-101)
\* ------------------------------------------------------------------------
\* the main thread calls pause()
MainCallPause == ev.main = "next" /\ EvStep([ev EXCEPT !.main = "pause_reset"])

\* the main thread calls resume() after pause() has returned
MainCallResume == ev.main = "suspended" /\ EvStep(resume(ev))

\* event_tx.send(..) into the unbounded channel, of which MaxQueue events
\* are kept here
PollerSendAny ==
    /\ \E event \in {"Key", "Resize", "Tick"} :
          /\ ev.poller = "send_" \o event
          /\ EvStep(IF Len(ev.queue) < MaxQueue THEN send(ev, event)
                    ELSE [ev EXCEPT !.poller = "check"])

PollerRuns ==
    \/ PollerCheck \/ PollerAckSet \/ PollerAckUnlock \/ PollerSpinExit
    \/ PollerPoll \/ PollerRead \/ PollerSendAny
PauseRuns ==
    \/ MainPauseReset \/ MainPauseStore \/ MainPauseLock \/ MainPauseWait \/ MainPauseWake

NextPause == PollerRuns \/ PollerAckLock \/ PauseRuns \/ MainCallPause \/ MainCallResume

\* both threads keep being scheduled, and a thread that keeps asking for the
\* mutex gets it
SpecPause ==
    /\ InitEv /\ [][NextPause]_vars
    /\ WF_vars(PollerRuns) /\ SF_vars(PollerAckLock)
    /\ WF_vars(MainPauseStore) /\ WF_vars(MainPauseWait)
    /\ SF_vars(MainPauseReset) /\ SF_vars(MainPauseLock) /\ SF_vars(MainPauseWake)

\* C39: for every sequence of pause() and resume() calls of the main thread
\* each pause() eventually returns, also a pause() called after a resume()
\* that the poller has not yet observed.
C39_PauseReturns == (ev.main = "pause_reset") ~> (ev.main = "suspended")

\* pause() waits for an acknowledgement while the poller is in the spin-wait
\* of the previous pause
C39_PauseDuringSpin ==
    /\ ev.main = "pause_blocked"
    /\ ev.poller = "spin" /\ ev.paused /\ ~ev.acked

\* in the main loop pause() is not called while the poller is in the
\* spin-wait of the previous pause
PauseCalledAfterSpin ==
    ev.main \in {"pause_reset", "pause_store", "pause_lock", "pause_wait", "pause_blocked"}
        => (ev.poller = "spin" => ev.acked)

\* ------------------------------------------------------------------------
\* The GitHub view: background fetches of issue details
\* (src/github/state.rs:44-282, src/app.rs:1061-1086, src/main.rs:45)
\* ------------------------------------------------------------------------
MaxFetches == 2    \* detail fetches in flight at a time

\* the issues and pull requests of the repository, by number
IssueNumbers == <<1, 2>>
PrNumbers == <<3>>

\* GhDetailContent: None, Loading { kind, number }, Issue(detail),
\* Pr(detail), Error(e); a detail is represented by its number
GhDetail(tag, kind, number) == [tag |-> tag, kind |-> kind, number |-> number]

\* GhBgMessage; a result is Ok (ok, with its payload) or Err
GhBgMessage(kind, ok, payload) == [kind |-> kind, ok |-> ok, payload |-> payload]

\* a background thread of the GitHub view and the request it makes next
GhThread(pc, number) == [pc |-> pc, number |-> number]

\* GitHubState::new followed by GitHubState::initialize; `spawned` holds the
\* threads started by the call being executed
GitHubStateNew ==
    [gh_available |-> None, gh_error |-> None,
     issues |-> <<>>, prs |-> <<>>,
     issues_loading |-> TRUE, prs_loading |-> TRUE,
     issue_selected_idx |-> 0, pr_selected_idx |-> 0,
     focused_pane |-> "IssueList", previous_pane |-> "IssueList",
     detail |-> GhDetail("None", "", 0),
     detail_pane |-> "Body",
     detail_scroll_body |-> 0, detail_scroll_status |-> 0, detail_scroll_comments |-> 0,
     issue_cache |-> {}, pr_cache |-> {},
     initialized |-> TRUE,
     spawned |-> <<GhThread("auth", 0), GhThread("prs", 0)>>]

reset_detail_panes(g) ==
    [g EXCEPT !.detail_pane = "Body", !.detail_scroll_body = 0,
              !.detail_scroll_status = 0, !.detail_scroll_comments = 0]

load_issue_detail(g, number) ==
    IF number \in g.issue_cache
    THEN reset_detail_panes([g EXCEPT !.detail = GhDetail("Issue", "Issue", number)])
    ELSE [reset_detail_panes([g EXCEPT !.detail = GhDetail("Loading", "Issue", number)])
            EXCEPT !.spawned = Append(@, GhThread("issue", number))]

load_selected_issue_detail(g) ==
    IF InBounds(g.issues, g.issue_selected_idx)
    THEN load_issue_detail(g, At(g.issues, g.issue_selected_idx))
    ELSE g

\* one message of the loop of drain_bg_messages
bg_message(g, msg) ==
    CASE msg.kind = "AuthStatus" ->
            IF msg.ok THEN [g EXCEPT !.gh_available = Some(TRUE), !.gh_error = None]
            ELSE [g EXCEPT !.gh_available = Some(FALSE), !.gh_error = Some("auth"),
                           !.issues_loading = FALSE, !.prs_loading = FALSE]
      [] msg.kind = "IssueList" ->
            IF msg.ok THEN [g EXCEPT !.issues_loading = FALSE, !.issues = msg.payload]
            ELSE [g EXCEPT !.issues_loading = FALSE,
                           !.gh_error = IF IsNone(@) THEN Some("issues") ELSE @]
      [] msg.kind = "PrList" ->
            IF msg.ok THEN [g EXCEPT !.prs_loading = FALSE, !.prs = msg.payload]
            ELSE [g EXCEPT !.prs_loading = FALSE,
                           !.gh_error = IF IsNone(@) THEN Some("prs") ELSE @]
      [] msg.kind = "IssueDetail" ->
            IF msg.ok THEN [g EXCEPT !.issue_cache = @ \cup {msg.payload},
                                     !.detail = GhDetail("Issue", "Issue", msg.payload)]
            ELSE [g EXCEPT !.detail = GhDetail("Error", "", 0)]
      [] OTHER ->
            IF msg.ok THEN [g EXCEPT !.pr_cache = @ \cup {msg.payload},
                                     !.detail = GhDetail("Pr", "Pr", msg.payload)]
            ELSE [g EXCEPT !.detail = GhDetail("Error", "", 0)]

RECURSIVE bg_messages(_, _)
bg_messages(g, messages) ==
    IF messages = <<>> THEN g
    ELSE bg_messages(bg_message(g, Head(messages)), Tail(messages))

\* GitHubState::drain_bg_messages, `messages` being what try_iter collects
drain_bg_messages(g, messages) ==
    LET g2 == bg_messages(g, messages)
    IN IF \E i \in 1..Len(messages) : messages[i].kind = "IssueList" /\ messages[i].ok
       THEN load_selected_issue_detail(g2)
       ELSE g2

\* App::handle_gh_issue_list_key, the arms that move the selection
handle_gh_issue_list_key(g, key) ==
    CASE key.code = "j" ->
            IF g.issues # <<>> /\ g.issue_selected_idx + 1 < Len(g.issues)
            THEN load_selected_issue_detail([g EXCEPT !.issue_selected_idx = @ + 1])
            ELSE g
      [] key.code = "k" ->
            IF g.issue_selected_idx > 0
            THEN load_selected_issue_detail([g EXCEPT !.issue_selected_idx = @ - 1])
            ELSE g
      [] key.code = "g" ->
            load_selected_issue_detail([g EXCEPT !.issue_selected_idx = 0])
      [] key.code = "G" ->
            IF g.issues # <<>>
            THEN load_selected_issue_detail([g EXCEPT !.issue_selected_idx = Len(g.issues) - 1])
            ELSE g
      [] OTHER -> g

\* the detail fetches whose response has not been drained
fetches_in_flight ==
    Cardinality({i \in 1..Len(workers) : workers[i].pc = "issue"})
        + Cardinality({i \in 1..Len(chan.queue) : chan.queue[i].kind = "IssueDetail"})

\* the state moves on: the call returned g, its threads run
GhStep(g) ==
    /\ app' = [app EXCEPT !.github = [g EXCEPT !.spawned = <<>>]]
    /\ workers' = workers \o g.spawned

\* a key of the issue list; hist records the pairs (number being fetched,
\* other number requested meanwhile)
GhKey ==
    \E key \in {K("j"), K("k"), K("g"), K("G")} :
       LET g == handle_gh_issue_list_key(app.github, key)
       IN /\ app.github.focused_pane = "IssueList"
          /\ g.spawned = <<>> \/ fetches_in_flight < MaxFetches
          /\ GhStep(g)
          /\ hist' = hist \cup {<<workers[i].number, g.spawned[1].number>> :
                                  i \in {j \in 1..Len(workers) :
                                            /\ g.spawned # <<>>
                                            /\ workers[j].pc = "issue"
                                            /\ workers[j].number # g.spawned[1].number}}
          /\ UNCHANGED <<chan, hl, ev>>

\* a background thread sends its result and goes on or exits
GhThreadStep ==
    \E i \in 1..Len(workers), ok \in BOOLEAN :
       LET w == workers[i]
           msg == CASE w.pc = "auth" -> GhBgMessage("AuthStatus", ok, <<>>)
                    [] w.pc = "issues" -> GhBgMessage("IssueList", ok, IF ok THEN IssueNumbers ELSE <<>>)
                    [] w.pc = "prs" -> GhBgMessage("PrList", ok, IF ok THEN PrNumbers ELSE <<>>)
                    [] OTHER -> GhBgMessage("IssueDetail", ok, IF ok THEN w.number ELSE 0)
           rest == SubSeq(workers, 1, i - 1) \o SubSeq(workers, i + 1, Len(workers))
       IN /\ workers' = IF w.pc = "auth" /\ ok THEN rest \o <<GhThread("issues", 0)>> ELSE rest
          /\ chan' = [chan EXCEPT !.queue = Append(@, msg)]
          /\ UNCHANGED <<app, hist, hl, ev>>

\* the main loop collects the results (src/main.rs:45)
GhDrain ==
    /\ chan.queue # <<>>
    /\ GhStep(drain_bg_messages(app.github, chan.queue))
    /\ chan' = [chan EXCEPT !.queue = <<>>]
    /\ UNCHANGED <<hist, hl, ev>>

InitGh ==
    /\ app = [github |-> [GitHubStateNew EXCEPT !.spawned = <<>>]]
                @@ [AppNew(DiffEmpty) EXCEPT !.spawned = <<>>, !.view_mode = "GitHub"]
    /\ workers = GitHubStateNew.spawned
    /\ chan = [id |-> 0, queue |-> <<>>]
    /\ hist = {}
    /\ hl = Idle
    /\ ev = Idle

NextGh == GhKey \/ GhThreadStep \/ GhDrain
SpecGh == InitGh /\ [][NextGh]_vars

\* every response has been drained, the fetch of the selected issue
\* succeeded and a fetched issue is shown
gh_settled ==
    /\ workers = <<>> /\ chan.queue = <<>>
    /\ app.github.detail.tag = "Issue"
    /\ At(app.github.issues, app.github.issue_selected_idx) \in app.github.issue_cache

\* C40: when detail fetches for two different items were in flight at the
\* same time, then once all responses are drained the detail pane shows the
\* selected item, in whatever order the responses came.
C40_DetailOfSelected ==
    (hist # {} /\ gh_settled)
        => app.github.detail.number = At(app.github.issues, app.github.issue_selected_idx)

\* fetches for two different issues are in flight, the later one for the
\* selected issue
C40_TwoFetchesInFlight ==
    /\ hist # {}
    /\ \E i, j \in 1..Len(workers) :
          /\ i < j /\ workers[i].pc = "issue" /\ workers[j].pc = "issue"
          /\ workers[i].number # workers[j].number
          /\ workers[j].number = At(app.github.issues, app.github.issue_selected_idx)
          /\ app.github.detail = GhDetail("Loading", "Issue", workers[j].number)

====
